---- MODULE Spec2Model ----
(***************************************************************************)
(* A model of matthewmueller/llm: the agent loop (agent.go, Agent.Chat),   *)
(* the batch primitive (internal/batch/batch.go), the Chat iterators of    *)
(* the provider adapters (providers/...), the memoized model listing       *)
(* (internal/cache/cache.go), Client.Models (llm.go), the typed tools       *)
(* (tool.go, typedFunc.Run) and the sandbox commands (sandbox/...).        *)
(*                                                                         *)
(* Strings are sequences of tokens, so that concatenation is \o and the    *)
(* empty string is << >>.  A Go pointer that may be nil is a sequence of   *)
(* length 0 (nil) or 1.  A Go error is a sequence of tokens, << >> is nil. *)
(***************************************************************************)
EXTENDS Integers, Sequences, FiniteSets, TLC

\* ------------------------------------------------------------------ bounds

\* Chat invocations on one Agent.
MaxChats == 2
\* Provider requests over the life of the Agent.
MaxRequests == 3
\* Provider responses (stream deltas) over the life of the Agent.
MaxDeltas == 2
\* Functions scheduled on one Batch.
MaxTasks == 3
\* Events one provider stream delivers to its adapter.
MaxStream == 5
\* Calls of one memoized Models function.
MaxCalls == 3
\* Providers registered with one Client.
MaxProviders == 2
\* Tool calls one agent hands to a typed tool.
MaxRuns == 3
\* Method calls a caller makes on one sandbox command.
MaxOps == 4
\* Chunks a sandbox command writes to each of stdout and stderr.
MaxOut == 2
\* Path components in the working directory handed to the local sandbox.
MaxDepth == 2
\* Characters in an argument handed to shellQuote.
MaxWord == 3
\* Pointer, slice and array levels around the type of a struct field.
MaxNest == 2
\* Goroutines that use the batch and the model cache at the same time.
MaxGoroutines == 2
\* The max-steps bound n of the claim about bounded runs.
StepBound == 2

\* ------------------------------------------------------------- agent state

VARIABLES
    msgs,               \* Agent.messages.msgs: the conversation history
    pc,                 \* where the iterator body of Agent.Chat stands
    req,                \* the ChatRequest.Messages of the request in flight
    assistantContent,   \* strings.Builder of the current turn
    assistantThinking,  \* strings.Builder of the current turn
    toolCall,           \* the current turn's toolCall (nil or one call)
    events,             \* pairs yielded to the caller in the current run
    outcome,            \* how the last run ended: "done" (final event),
                        \* "failed" (provider error), "unknown" (unknown
                        \* tool), "stopped" (by the caller); "none" before
    chats,              \* Chat invocations started so far
    nreq,               \* provider requests sent so far (all runs)
    ndelta,             \* provider responses received so far (all runs)
    steps,              \* provider requests sent in the current run
    received,           \* tool calls the provider streamed in the current turn
    ran,                \* the run's tool.Run invocations: the call, what it returned
    hist                \* every message appended since construction or Clear

agentVars == <<msgs, pc, req, assistantContent, assistantThinking, toolCall,
               events, outcome, chats, nreq, ndelta, steps, received, ran,
               hist>>

\* ------------------------------------------------------------- batch state

VARIABLES
    next,       \* Batch.next
    out,        \* Batch.out
    task,       \* per Go call: the state of its goroutine
    ret,        \* per Go call: what its function returned
    egErr,      \* errgroup's first error (errOnce)
    stored,     \* the indexes of the Go calls, in the order their results were stored
    waited      \* what Wait returned: << >> while it has not

batchVars == <<next, out, task, ret, egErr, stored, waited>>

\* ------------------------------------------------- provider adapter state

VARIABLES
    adapter,        \* the provider whose Chat iterator runs: "none" before
    apc,            \* where that iterator body stands: "idle", "stream", "returned"
    model,          \* req.Model
    sent,           \* the model names of the requests sent to the provider
    yielded,        \* the pairs the adapter has passed to yield, in order
    stoppedAt,      \* Len(yielded) when yield first returned false; 0 before
    currentToolUse, \* the tool-use block being built (nil or one call)
    toolInput,      \* the argument fragments accumulated for that block
    block,          \* the content block the provider has open: "none", "text", "tool"
    streamed,       \* the tool calls the provider has streamed, with their fragments
    finished,       \* the provider has sent its end-of-message marker
    nin             \* provider stream events consumed so far

providerVars == <<adapter, apc, model, sent, yielded, stoppedAt,
                  currentToolUse, toolInput, block, streamed, finished, nin>>

\* ------------------------------------------------------ model cache state

VARIABLES
    cached,     \* cache.Models: the cached slice (nil or one list)
    cpc,        \* per call of the memoized function: where it stands
    local,      \* per call: its locals models, err after fn returned
    cret,       \* per call: what it returned
    afterOK     \* per call: some call had returned successfully when it started

cacheVars == <<cached, cpc, local, cret, afterOK>>

\* ---------------------------------------------------- Client.Models state

VARIABLES
    models,     \* the named result models, which the goroutines append to
    gpc,        \* per provider: where its goroutine stands
    listed,     \* per provider: what provider.Models returned
    seen,       \* per provider: the value of models its append has read
    listErr,    \* errgroup's first error
    listRet     \* what Client.Models returned: << >> while it has not

listVars == <<models, gpc, listed, seen, listErr, listRet>>

\* ------------------------------------------------------- typed tool state

VARIABLES
    tpc,        \* where the agent loop stands: "request" or "tool"
    targs,      \* toolCall.Arguments of the call about to run
    truns,      \* per tool.Run call: its arguments, whether and with what
                \* input the tool function was invoked, what Run returned
    fed         \* the tool-role messages the loop appended, one per call

toolVars == <<tpc, targs, truns, fed>>

\* --------------------------------------------------- sandbox command state

VARIABLES
    backend,    \* the back-end that built the command: "none" before
    dialOK,     \* ssh: the host can be dialled
    ctxErr,     \* ctx.Err(): nil until the context is cancelled or times out
    proc,       \* the process: "none", "running", "exited", "killed"
    status,     \* the exit status of a process that exited
    pipeSet,    \* the pipes the command has handed out
    begun,      \* the command has started (Process != nil, session started)
    session,    \* ssh: c.session != nil
    exitCode,   \* command.exitCode, what ExitCode() returns
    waitRet,    \* what the last Wait returned, in a sequence (<< >> before):
                \* its error, the state of the process then, and whether it
                \* closed the ssh session
    pipeLog,    \* the pipe requests made: which pipe, whether the command
                \* had started, whether the pipe was handed out
    nops,       \* method calls made on the command
    xpc,        \* where Collect stands: "idle" when Execute is not in use
    wrote,      \* per output stream: the chunks the process has written
    buf,        \* per output stream: the chunks copied to stdoutBuf, stderrBuf
    pipeClosed, \* the parent's pipe ends have been closed
    copyDone,   \* per output stream: its io.Copy goroutine has returned
    collectRet  \* what Collect returned: << >> while it has not

cmdVars == <<backend, dialOK, ctxErr, proc, status, pipeSet, begun, session,
             exitCode, waitRet, pipeLog, nops, xpc, wrote, buf,
             pipeClosed, copyDone, collectRet>>

\* ----------------------------------------------------- local sandbox state

VARIABLES
    sroot,      \* Sandbox.root of the last Run, as path components
    cdir,       \* c.Dir of the last Run: absolute or not, and its components
    lrun        \* what the last Run did, in a sequence (<< >> before): its
                \* error, whether the command was started, and in which
                \* directory

localVars == <<sroot, cdir, lrun>>

\* -------------------------------------------------- shell quoting state

VARIABLES
    quoted     \* what shellQuote was given and what it returned, in a sequence (<< >> before)

quoteVars == <<quoted>>

\* ----------------------------------------------------- shell tool state

VARIABLES
    shtool,     \* the tool that runs the command: "none" before, "shell" or "tool_bash"
    shproc,     \* the command: its state ("none", "running", "exited", "killed"), exit status, and what it wrote to stdout, to stderr and to both in order
    shret      \* what the tool function returned, in a sequence (<< >> before)

shellVars == <<shtool, shproc, shret>>

\* ---------------------------------------------- thought signature state

VARIABLES
    sgpc,        \* where the exchange with Gemini stands: "request", "stream", "done"
    gmsgs,      \* the messages of the agent
    grecv,      \* for each message, the signature that came with its function call part (<< >> when there was none)
    gsent,      \* the requests sent: the contents, and how many messages there were
    glast,      \* lastThoughtSignature of the response being read
    gcall      \* the tool call of the response being read, in a sequence

sigVars == <<sgpc, gmsgs, grecv, gsent, glast, gcall>>

\* ---------------------------------------------------- tool schema state

VARIABLES
    generated  \* the struct field generateSchema was given and the parameters it returned, in a sequence (<< >> before)

schemaVars == <<generated>>

\* ------------------------------------------------ thinking budget state

VARIABLES
    budgets    \* the requests made with a thinking level: the provider, the level, the budget it was given, and the thinking settings that were sent

budgetVars == <<budgets>>

\* ---------------------------------------------------------- mutex state

VARIABLES
    bpc,        \* per goroutine: where its Batch.Go and the function it schedules stand
    bmu,        \* the goroutine that holds the mutex of the batch, 0 when it is free
    kpc,        \* per goroutine: where its call of the memoized Models stands
    kmu,        \* the mutex of the model cache: the goroutines that hold it for reading, and the one that holds it for writing (0 for none)
    kfilled    \* cached != nil

lockVars == <<bpc, bmu, kpc, kmu, kfilled>>

\* -------------------------------------------------------- routing state

VARIABLES
    routed     \* what Client.Chat did with the request, in a sequence (<< >> before): the model asked for, the provider whose Chat was called (0 for none), and the error yielded

routeVars == <<routed>>

vars == <<agentVars, batchVars, providerVars, cacheVars, listVars, toolVars,
          cmdVars, localVars, quoteVars, shellVars, sigVars, schemaVars,
          budgetVars, lockVars, routeVars>>

\* What an action of the agent, of the batch, of a provider adapter, of the
\* model cache and of Client.Models leaves alone.
nonAgentVars ==
    <<batchVars, providerVars, cacheVars, listVars, toolVars, cmdVars,
      localVars, quoteVars, shellVars, sigVars, schemaVars, budgetVars,
      lockVars, routeVars>>
nonBatchVars ==
    <<agentVars, providerVars, cacheVars, listVars, toolVars, cmdVars,
      localVars, quoteVars, shellVars, sigVars, schemaVars, budgetVars,
      lockVars, routeVars>>
nonProviderVars ==
    <<agentVars, batchVars, cacheVars, listVars, toolVars, cmdVars,
      localVars, quoteVars, shellVars, sigVars, schemaVars, budgetVars,
      lockVars, routeVars>>
nonCacheVars ==
    <<agentVars, batchVars, providerVars, listVars, toolVars, cmdVars,
      localVars, quoteVars, shellVars, sigVars, schemaVars, budgetVars,
      lockVars, routeVars>>
nonListVars ==
    <<agentVars, batchVars, providerVars, cacheVars, toolVars, cmdVars,
      localVars, quoteVars, shellVars, sigVars, schemaVars, budgetVars,
      lockVars, routeVars>>
nonToolVars ==
    <<agentVars, batchVars, providerVars, cacheVars, listVars, cmdVars,
      localVars, quoteVars, shellVars, sigVars, schemaVars, budgetVars,
      lockVars, routeVars>>
nonCmdVars ==
    <<agentVars, batchVars, providerVars, cacheVars, listVars, toolVars,
      localVars, quoteVars, shellVars, sigVars, schemaVars, budgetVars,
      lockVars, routeVars>>
nonLocalVars ==
    <<agentVars, batchVars, providerVars, cacheVars, listVars, toolVars,
      cmdVars, quoteVars, shellVars, sigVars, schemaVars, budgetVars,
      lockVars, routeVars>>
nonQuoteVars ==
    <<agentVars, batchVars, providerVars, cacheVars, listVars, toolVars,
      cmdVars, localVars, shellVars, sigVars, schemaVars, budgetVars,
      lockVars, routeVars>>
nonShellVars ==
    <<agentVars, batchVars, providerVars, cacheVars, listVars, toolVars,
      cmdVars, localVars, quoteVars, sigVars, schemaVars, budgetVars,
      lockVars, routeVars>>
nonSigVars ==
    <<agentVars, batchVars, providerVars, cacheVars, listVars, toolVars,
      cmdVars, localVars, quoteVars, shellVars, schemaVars, budgetVars,
      lockVars, routeVars>>
nonSchemaVars ==
    <<agentVars, batchVars, providerVars, cacheVars, listVars, toolVars,
      cmdVars, localVars, quoteVars, shellVars, sigVars, budgetVars,
      lockVars, routeVars>>
nonBudgetVars ==
    <<agentVars, batchVars, providerVars, cacheVars, listVars, toolVars,
      cmdVars, localVars, quoteVars, shellVars, sigVars, schemaVars,
      lockVars, routeVars>>
nonLockVars ==
    <<agentVars, batchVars, providerVars, cacheVars, listVars, toolVars,
      cmdVars, localVars, quoteVars, shellVars, sigVars, schemaVars,
      budgetVars, routeVars>>
nonRouteVars ==
    <<agentVars, batchVars, providerVars, cacheVars, listVars, toolVars,
      cmdVars, localVars, quoteVars, shellVars, sigVars, schemaVars,
      budgetVars, lockVars>>

\* ------------------------------------------------------------------ values

Nil == << >>

Last(s) == s[Len(s)]

\* The tool catalog of the agent (WithTool), indexed by name.
toolMap == {"add"}

\* The tool calls a provider can stream: ids are the provider's choice, and
\* "bogus" is a name the catalog does not hold.
ToolCalls ==
    { [ID |-> "id1", Name |-> "add"],
      [ID |-> "id2", Name |-> "add"],
      [ID |-> "id3", Name |-> "bogus"] }

Message(role, content, thinking, call, id) ==
    [Role |-> role, Content |-> content, Thinking |-> thinking,
     ToolCall |-> call, ToolCallID |-> id]

\* A pair yielded to the caller of Agent.Chat: (*Event, error).
Pair(content, thinking, tool, done, err) ==
    [Content |-> content, Thinking |-> thinking, Tool |-> tool,
     Done |-> done, Err |-> err]

\* What a provider stream yields as one ChatResponse.
Response(thinking, content, tool) ==
    [Thinking |-> thinking, Content |-> content, Tool |-> tool]

Responses ==
    { Response(<<"t">>, Nil, Nil),
      Response(Nil, <<"a">>, Nil),
      Response(Nil, <<"b">>, Nil),
      Response(<<"t">>, <<"b">>, <<[ID |-> "id1", Name |-> "add"]>>) }
    \cup { Response(Nil, Nil, <<c>>) : c \in ToolCalls }

ProviderErr == <<"provider: stream failed">>

\* What Tool.Run returns: (result, err).
ToolOutcomes ==
    { [result |-> <<"42">>, err |-> Nil],
      [result |-> Nil, err |-> <<"boom">>] }

\* The histories WithMessages can seed.
Seeds == { << >>, << Message("system", <<"s">>, Nil, Nil, "") >> }

UserContents == { <<"q">> }

\* --------------------------------------------------------------- messages

\* An Add that puts the new messages in front of the log.
AddFront(m, new) == new \o m

\* messages.Add: append under the write lock.
Add(m, new) == m \o new

\* A List that hands out only the messages of the current Chat run: those
\* from the last user message on.
ListCurrentRun(m) ==
    LET users == { i \in DOMAIN m : m[i].Role = "user" }
        from == CHOOSE i \in users : \A j \in users : j <= i
    IN  IF users = {} THEN m ELSE SubSeq(m, from, Len(m))

\* messages.List: the slice itself, read under the read lock.
List(m) == m

\* messages.Clear
Cleared == << >>

\* ------------------------------------------------------------- agent loop

\* The user message Chat appends before the loop starts.
UserMessage(content) == Message("user", content, Nil, Nil, "")

\* The assistant message appended when a provider stream has ended.
AssistantMessage(content, thinking, call) ==
    Message("assistant", content, thinking, call, "")

\* fmt.Sprintf("Error: %v", err)
ErrorContent(err) == <<"Error: ">> \o err

\* A tool-role message that carries the error text without the prefix.
ToolResultMessageBare(call, o) ==
    Message("tool", IF o.err # Nil THEN o.err ELSE o.result, Nil, Nil, call.ID)

\* The tool-role message appended after tool.Run returned (result, err).
ToolResultMessage(call, o) ==
    IF o.err # Nil
    THEN Message("tool", ErrorContent(o.err), Nil, Nil, call.ID)
    ELSE Message("tool", o.result, Nil, Nil, call.ID)

\* fmt.Errorf("llm: unknown tool %q", name)
UnknownToolErr(name) == <<"llm: unknown tool", name>>

ThinkingEvent(t) == Pair(Nil, t, Nil, FALSE, Nil)
ContentEvent(c) == Pair(c, Nil, Nil, FALSE, Nil)
ToolEvent(call) == Pair(Nil, Nil, call, FALSE, Nil)
DoneEvent(content, thinking) == Pair(content, thinking, Nil, TRUE, Nil)
ErrorPair(err) == Pair(Nil, Nil, Nil, FALSE, err)

\* A return that records how the run ended but stays in the loop.
ReturnStaysInLoop(how) ==
    /\ outcome' = how
    /\ UNCHANGED <<pc, req, assistantContent, assistantThinking, toolCall>>

\* The iterator body returns: its locals are gone.
Return(how) ==
    /\ pc' = "idle"
    /\ outcome' = how
    /\ req' = Nil
    /\ assistantContent' = Nil
    /\ assistantThinking' = Nil
    /\ toolCall' = Nil

InitAgent ==
    /\ msgs \in Seeds
    /\ pc = "idle"
    /\ req = Nil
    /\ assistantContent = Nil
    /\ assistantThinking = Nil
    /\ toolCall = Nil
    /\ events = << >>
    /\ outcome = "none"
    /\ chats = 0
    /\ nreq = 0
    /\ ndelta = 0
    /\ steps = 0
    /\ received = Nil
    /\ ran = << >>
    /\ hist = msgs

\* Agent.Chat is iterated: the user message is appended, the catalog built.
Chat(content) ==
    /\ UNCHANGED nonAgentVars
    /\ pc = "idle"
    /\ chats < MaxChats
    /\ nreq < MaxRequests
    /\ msgs' = Add(msgs, <<UserMessage(content)>>)
    /\ hist' = Append(hist, UserMessage(content))
    /\ pc' = "request"
    /\ events' = << >>
    /\ outcome' = "none"
    /\ chats' = chats + 1
    /\ steps' = 0
    /\ ran' = << >>
    /\ received' = Nil
    /\ UNCHANGED <<req, assistantContent, assistantThinking, toolCall,
                   nreq, ndelta>>

\* The head of the for loop: the request is built from the history and
\* a.client.Chat is ranged over; the turn's builders start empty.
BuildRequest ==
    /\ UNCHANGED nonAgentVars
    /\ pc = "request"
    /\ req' = List(msgs)
    /\ assistantContent' = Nil
    /\ assistantThinking' = Nil
    /\ toolCall' = Nil
    /\ received' = Nil
    /\ nreq' = nreq + 1
    /\ steps' = steps + 1
    /\ pc' = "stream"
    /\ UNCHANGED <<msgs, hist, events, outcome, chats, ndelta, ran>>

\* One (resp, nil) pair of the provider stream goes through the loop body.
\* keepT and keepC are what the caller's yield returns for the thinking and
\* for the content event.
ProviderEvent(resp, keepT, keepC) ==
    LET hasT == resp.Thinking # Nil
        stopT == hasT /\ ~keepT
        hasC == ~stopT /\ resp.Content # Nil
        stopC == hasC /\ ~keepC
        stopped == stopT \/ stopC
    IN  /\ UNCHANGED nonAgentVars
        /\ pc = "stream"
        /\ ndelta < MaxDeltas
        /\ resp.Tool # Nil => nreq < MaxRequests
        /\ ndelta' = ndelta + 1
        /\ events' = events
                \o (IF hasT THEN <<ThinkingEvent(resp.Thinking)>> ELSE << >>)
                \o (IF hasC THEN <<ContentEvent(resp.Content)>> ELSE << >>)
        /\ IF stopped
           THEN Return("stopped") /\ UNCHANGED received
           ELSE /\ assistantThinking' = assistantThinking \o resp.Thinking
                /\ assistantContent' = assistantContent \o resp.Content
                /\ toolCall' = IF resp.Tool # Nil THEN resp.Tool ELSE toolCall
                /\ received' = received \o resp.Tool
                /\ UNCHANGED <<pc, outcome, req>>
        /\ UNCHANGED <<msgs, hist, chats, nreq, steps, ran>>

\* A loop that yields the provider's error and goes on reading the stream.
ProviderErrorResumes ==
    /\ UNCHANGED nonAgentVars
    /\ pc = "stream"
    /\ events' = Append(events, ErrorPair(ProviderErr))
    /\ outcome' = "failed"
    /\ UNCHANGED <<msgs, hist, pc, req, assistantContent, assistantThinking,
                   toolCall, chats, nreq, ndelta, steps, ran, received>>

\* The provider stream yields (nil, err): the error is yielded, Chat returns.
ProviderError ==
    /\ UNCHANGED nonAgentVars
    /\ pc = "stream"
    /\ events' = Append(events, ErrorPair(ProviderErr))
    /\ Return("failed")
    /\ UNCHANGED <<msgs, hist, chats, nreq, ndelta, steps, ran, received>>

\* The provider stream has ended without a tool call: the assistant message
\* is appended and the final event yielded.
EndTurnDone ==
    /\ UNCHANGED nonAgentVars
    /\ pc = "stream"
    /\ toolCall = Nil
    /\ msgs' = Add(msgs, <<AssistantMessage(assistantContent, assistantThinking, toolCall)>>)
    /\ hist' = Append(hist, AssistantMessage(assistantContent, assistantThinking, toolCall))
    /\ events' = Append(events, DoneEvent(assistantContent, assistantThinking))
    /\ Return("done")
    /\ UNCHANGED <<chats, nreq, ndelta, steps, ran, received>>

\* The provider stream has ended with a tool call: the assistant message is
\* appended, the tool event yielded (keep is what yield returns) and the tool
\* looked up in the catalog.
EndTurnTool(keep) ==
    /\ UNCHANGED nonAgentVars
    /\ pc = "stream"
    /\ toolCall # Nil
    /\ msgs' = Add(msgs, <<AssistantMessage(assistantContent, assistantThinking, toolCall)>>)
    /\ hist' = Append(hist, AssistantMessage(assistantContent, assistantThinking, toolCall))
    /\ IF ~keep
       THEN /\ events' = Append(events, ToolEvent(toolCall))
            /\ Return("stopped")
       ELSE IF toolCall[1].Name \notin toolMap
       THEN /\ events' = events \o <<ToolEvent(toolCall),
                                     ErrorPair(UnknownToolErr(toolCall[1].Name))>>
            /\ Return("unknown")
       ELSE /\ events' = Append(events, ToolEvent(toolCall))
            /\ pc' = "tool"
            /\ UNCHANGED <<outcome, req, assistantContent, assistantThinking,
                           toolCall>>
    /\ UNCHANGED <<chats, nreq, ndelta, steps, ran, received>>

\* A loop that records the tool result and then falls through to the final
\* event instead of continuing.
RunToolThenDone(o) ==
    /\ UNCHANGED nonAgentVars
    /\ pc = "tool"
    /\ ran' = Append(ran, [call |-> toolCall[1], ret |-> o])
    /\ msgs' = Add(msgs, <<ToolResultMessage(toolCall[1], o)>>)
    /\ hist' = Append(hist, ToolResultMessage(toolCall[1], o))
    /\ events' = Append(events, DoneEvent(assistantContent, assistantThinking))
    /\ Return("done")
    /\ UNCHANGED <<chats, nreq, ndelta, steps, received>>

\* tool.Run returns o: its result or its error becomes a tool-role message
\* and the loop continues.
RunTool(o) ==
    /\ UNCHANGED nonAgentVars
    /\ pc = "tool"
    /\ ran' = Append(ran, [call |-> toolCall[1], ret |-> o])
    /\ msgs' = Add(msgs, <<ToolResultMessage(toolCall[1], o)>>)
    /\ hist' = Append(hist, ToolResultMessage(toolCall[1], o))
    /\ pc' = "request"
    /\ UNCHANGED <<req, assistantContent, assistantThinking, toolCall, events,
                   outcome, chats, nreq, ndelta, steps, received>>

\* Agent.Clear, between two Chat runs.
Clear ==
    /\ UNCHANGED nonAgentVars
    /\ pc = "idle"
    /\ msgs # << >>
    /\ msgs' = Cleared
    /\ hist' = << >>
    /\ UNCHANGED <<pc, req, assistantContent, assistantThinking, toolCall,
                   events, outcome, chats, nreq, ndelta, steps, received, ran>>

NextAgent ==
    \/ \E c \in UserContents : Chat(c)
    \/ BuildRequest
    \/ \E r \in Responses, keepT, keepC \in BOOLEAN : ProviderEvent(r, keepT, keepC)
    \/ ProviderError
    \/ EndTurnDone
    \/ \E keep \in BOOLEAN : EndTurnTool(keep)
    \/ \E o \in ToolOutcomes : RunTool(o)
    \/ Clear


\* ------------------------------------------------------------------ batch

\* *new(B): the zero value a slot is reserved with.
Zero == 0

\* What a scheduled function can return: (B, error).
FnReturns ==
    { [val |-> 1, err |-> Nil], [val |-> 2, err |-> Nil],
      [val |-> Zero, err |-> <<"e1">>], [val |-> Zero, err |-> <<"e2">>] }

\* A function that has not returned yet.
NoReturn == [val |-> Zero, err |-> <<"running">>]

\* A store that uses the batch's counter instead of the captured index.
StoreAtNext(o, idx, result) == [o EXCEPT ![Len(o)] = result]

\* b.out[idx] = result (idx counts from 0).
Store(o, idx, result) == [o EXCEPT ![idx + 1] = result]

\* An error slot that every failing goroutine overwrites.
LastErr(old, err) == err

\* errgroup: the first non-nil error is kept (errOnce).
FirstErr(old, err) == IF old = Nil THEN err ELSE old

\* What Wait returns once eg.Wait has: (nil, err) or (b.out, nil).
WaitResult(o, err) ==
    IF err # Nil THEN [out |-> Nil, err |-> err] ELSE [out |-> o, err |-> Nil]

InitBatch ==
    /\ next = 0
    /\ out = << >>
    /\ task = << >>
    /\ ret = << >>
    /\ egErr = Nil
    /\ stored = << >>
    /\ waited = Nil

\* Batch.Go: a slot is reserved under the lock, the goroutine is started.
Go ==
    /\ UNCHANGED nonBatchVars
    /\ waited = Nil
    /\ next < MaxTasks
    /\ next' = next + 1
    /\ out' = Append(out, Zero)
    /\ task' = Append(task, "spawned")
    /\ ret' = Append(ret, NoReturn)
    /\ UNCHANGED <<egErr, stored, waited>>

\* The goroutine of the Go call with index idx: fn returns r.  An error ends
\* the goroutine and goes to the errgroup.
TaskReturn(idx, r) ==
    /\ UNCHANGED nonBatchVars
    /\ idx < next
    /\ task[idx + 1] = "spawned"
    /\ ret' = [ret EXCEPT ![idx + 1] = r]
    /\ IF r.err # Nil
       THEN /\ egErr' = FirstErr(egErr, r.err)
            /\ task' = [task EXCEPT ![idx + 1] = "done"]
       ELSE /\ egErr' = egErr
            /\ task' = [task EXCEPT ![idx + 1] = "returned"]
    /\ UNCHANGED <<next, out, stored, waited>>

\* The goroutine of the Go call with index idx stores its result under the
\* lock and ends.
TaskStore(idx) ==
    /\ UNCHANGED nonBatchVars
    /\ idx < next
    /\ task[idx + 1] = "returned"
    /\ out' = Store(out, idx, ret[idx + 1].val)
    /\ task' = [task EXCEPT ![idx + 1] = "done"]
    /\ stored' = Append(stored, idx)
    /\ UNCHANGED <<next, ret, egErr, waited>>

\* Batch.Wait: eg.Wait returns when every goroutine has ended.
Wait ==
    /\ UNCHANGED nonBatchVars
    /\ waited = Nil
    /\ \A i \in 1..next : task[i] = "done"
    /\ waited' = <<WaitResult(out, egErr)>>
    /\ UNCHANGED <<next, out, task, ret, egErr, stored>>

NextBatch ==
    \/ Go
    \/ \E idx \in 0..(MaxTasks - 1), r \in FnReturns : TaskReturn(idx, r)
    \/ \E idx \in 0..(MaxTasks - 1) : TaskStore(idx)
    \/ Wait

\* ------------------------------------------------------ provider adapters

\* A pair a provider adapter passes to yield: (*ChatResponse, error).
ChatResponse(content, thinking, tool, done) ==
    [Content |-> content, Thinking |-> thinking, Tool |-> tool,
     Done |-> done, Err |-> Nil]

ChatError(err) ==
    [Content |-> Nil, Thinking |-> Nil, Tool |-> Nil, Done |-> FALSE,
     Err |-> err]

\* llm.ToolCall as an adapter builds it.
ToolCall(id, name, args) == [ID |-> id, Name |-> name, Arguments |-> args]

\* The models a request can name: the empty string and a model.
Models == { << >>, <<"m">> }

\* The two halves of the argument text {"x":1}, as a provider streams them,
\* and a blank.
Frag1 == <<"{\"x\":">>
Frag2 == <<"1}">>
Blank == <<" ">>
Fragments == { Frag1, Frag2, Blank }

\* How a provider stream can end: with no error, or with one.
StreamErrs == { << >>, <<"unexpected EOF">> }

\* The tool calls a provider names: (id, name).
CallHeads == { [ID |-> "id1", Name |-> "add"], [ID |-> "id2", Name |-> "add"] }

\* Text and thinking deltas a provider streams; the empty one included.
Texts == { << >>, <<"a">> }

\* A tool call the provider streams, as the ghost records it: its fragments
\* so far, and whether the provider has closed it.
Streamed(id, name, frags, closed) ==
    [ID |-> id, Name |-> name, Frags |-> frags, Closed |-> closed]

\* The record of the streamed calls with fragment f added to the last one.
AddFragment(st, f) ==
    [st EXCEPT ![Len(st)] = [@ EXCEPT !.Frags = @ \o f]]

\* The record of the streamed calls with the last one closed.
CloseLast(st) ==
    [st EXCEPT ![Len(st)] = [@ EXCEPT !.Closed = TRUE]]

\* `if !yield(resp, nil) { return }` over resps in order, for a consumer
\* that accepts `accept` more pairs: when it accepts them all the handler
\* goes on with the locals ctu and ti, and the iterator body returns when
\* the stream is over (over).  Otherwise the pair after the accepted ones
\* is the last one yielded and the iterator body returns.
YieldEach(resps, accept, ctu, ti, over) ==
    LET stop == accept < Len(resps)
        delivered == IF stop THEN SubSeq(resps, 1, accept + 1) ELSE resps
    IN  /\ yielded' = yielded \o delivered
        /\ stoppedAt' = IF stop /\ stoppedAt = 0
                        THEN Len(yielded) + accept + 1 ELSE stoppedAt
        /\ apc' = IF stop \/ over THEN "returned" ELSE "stream"
        /\ currentToolUse' = IF stop \/ over THEN Nil ELSE ctu
        /\ toolInput' = IF stop \/ over THEN Nil ELSE ti

\* yield(nil, err) followed by return: what yield returns is not looked at.
YieldErrorReturn(err) ==
    /\ yielded' = Append(yielded, ChatError(err))
    /\ apc' = "returned"
    /\ currentToolUse' = Nil
    /\ toolInput' = Nil
    /\ UNCHANGED stoppedAt

\* The iterator body returns without a further yield.
ReturnQuietly ==
    /\ apc' = "returned"
    /\ currentToolUse' = Nil
    /\ toolInput' = Nil
    /\ UNCHANGED <<yielded, stoppedAt>>

\* A stream event reaches the running adapter a.
Receives(a) ==
    /\ UNCHANGED nonProviderVars
    /\ adapter = a
    /\ apc = "stream"
    /\ nin < MaxStream
    /\ nin' = nin + 1
    /\ UNCHANGED <<adapter, model, sent>>

\* The stream of the running adapter a is over.
StreamOver(a) ==
    /\ UNCHANGED nonProviderVars
    /\ adapter = a
    /\ apc = "stream"
    /\ UNCHANGED <<adapter, model, sent, nin, block, streamed, finished>>

\* Chat of adapter a is iterated with model m.
Starts(a, m) ==
    /\ UNCHANGED nonProviderVars
    /\ apc = "idle"
    /\ adapter' = a
    /\ model' = m
    /\ UNCHANGED <<nin, block, streamed, finished>>

InitProvider ==
    /\ adapter = "none"
    /\ apc = "idle"
    /\ model = Nil
    /\ sent = << >>
    /\ yielded = << >>
    /\ stoppedAt = 0
    /\ currentToolUse = Nil
    /\ toolInput = Nil
    /\ block = "none"
    /\ streamed = << >>
    /\ finished = FALSE
    /\ nin = 0

\* ---- anthropic

\* Client.Chat up to NewStreaming: the model is required.
AnthropicChat(m) ==
    /\ Starts("anthropic", m)
    /\ IF m = Nil
       THEN /\ YieldErrorReturn(<<"anthropic: required model is empty">>)
            /\ UNCHANGED sent
       ELSE /\ sent' = Append(sent, m)
            /\ apc' = "stream"
            /\ UNCHANGED <<yielded, stoppedAt, currentToolUse, toolInput>>

\* ContentBlockStartEvent: a tool_use block starts the call being built.
AnthropicBlockStart(kind, head) ==
    /\ Receives("anthropic")
    /\ ~finished
    /\ block = "none"
    /\ block' = kind
    /\ IF kind = "tool"
       THEN /\ currentToolUse' = <<ToolCall(head.ID, head.Name, Nil)>>
            /\ toolInput' = Nil
            /\ streamed' = Append(streamed, Streamed(head.ID, head.Name, Nil, FALSE))
       ELSE UNCHANGED <<currentToolUse, toolInput, streamed>>
    /\ UNCHANGED <<yielded, stoppedAt, apc, finished>>

\* ContentBlockDeltaEvent with a TextDelta (thinking = FALSE) or a
\* ThinkingDelta: yielded unless empty.
AnthropicTextDelta(thinking, text, accept) ==
    /\ Receives("anthropic")
    /\ block = "text"
    /\ LET chatResp == IF thinking
                       THEN ChatResponse(Nil, text, Nil, FALSE)
                       ELSE ChatResponse(text, Nil, Nil, FALSE)
       IN  YieldEach(IF text # Nil THEN <<chatResp>> ELSE << >>, accept,
                     currentToolUse, toolInput, FALSE)
    /\ UNCHANGED <<block, streamed, finished>>

\* ContentBlockDeltaEvent with an InputJSONDelta: accumulated, not yielded.
AnthropicInputJSONDelta(partial) ==
    /\ Receives("anthropic")
    /\ block = "tool"
    /\ toolInput' = toolInput \o partial
    /\ streamed' = AddFragment(streamed, partial)
    /\ UNCHANGED <<yielded, stoppedAt, apc, currentToolUse, block, finished>>

\* ContentBlockStopEvent: the call being built is yielded with the
\* accumulated input as its arguments.
AnthropicBlockStop(accept) ==
    /\ Receives("anthropic")
    /\ block # "none"
    /\ block' = "none"
    /\ streamed' = IF block = "tool" THEN CloseLast(streamed) ELSE streamed
    /\ IF currentToolUse # Nil
       THEN LET call == ToolCall(currentToolUse[1].ID, currentToolUse[1].Name,
                                 toolInput)
            IN  YieldEach(<<ChatResponse(Nil, Nil, <<call>>, FALSE)>>, accept,
                          Nil, Nil, FALSE)
       ELSE UNCHANGED <<yielded, stoppedAt, apc, currentToolUse, toolInput>>
    /\ UNCHANGED finished

\* MessageDeltaEvent: a stop reason is the end of the message.
AnthropicMessageDelta(stopReason, accept) ==
    /\ Receives("anthropic")
    /\ ~finished
    /\ block = "none"
    /\ finished' = (stopReason # "")
    /\ YieldEach(IF stopReason # ""
                 THEN <<ChatResponse(Nil, Nil, Nil, TRUE)>> ELSE << >>,
                 accept, currentToolUse, toolInput, FALSE)
    /\ UNCHANGED <<block, streamed>>

\* stream.Next() returns false: stream.Err() is yielded when there is one.
\* A stream without an error ends after the end of the message.
AnthropicStreamEnd(err) ==
    /\ StreamOver("anthropic")
    /\ err = Nil => finished
    /\ IF err # Nil
       THEN YieldErrorReturn(<<"anthropic: streaming: ">> \o err)
       ELSE ReturnQuietly

NextAnthropic ==
    \/ \E m \in Models : AnthropicChat(m)
    \/ \E kind \in {"text", "tool"}, head \in CallHeads :
          AnthropicBlockStart(kind, head)
    \/ \E thinking \in BOOLEAN, text \in Texts, accept \in 0..1 :
          AnthropicTextDelta(thinking, text, accept)
    \/ \E partial \in Fragments : AnthropicInputJSONDelta(partial)
    \/ \E accept \in 0..1 : AnthropicBlockStop(accept)
    \/ \E stopReason \in {"", "end_turn"}, accept \in 0..1 :
          AnthropicMessageDelta(stopReason, accept)
    \/ \E err \in StreamErrs : AnthropicStreamEnd(err)

\* ---- openai

\* A choice of a streamed chunk: choice.Delta.Content, choice.Delta.ToolCalls
\* and choice.FinishReason.
Choice(content, calls, finishReason) ==
    [Content |-> content, ToolCalls |-> calls, FinishReason |-> finishReason]

\* The chunks a provider streams: none or one choice each (the request does
\* not ask for more).  A tool call starts with its id and name and goes on
\* in chunks that carry only a further fragment of the arguments.
OpenAIChunks ==
    { << >>,
      << Choice(<<"a">>, << >>, "") >>,
      << Choice(Nil, << >>, "stop") >> }
    \cup { << Choice(Nil, << ToolCall(h.ID, h.Name, Nil) >>, "") >> : h \in CallHeads }
    \cup { << Choice(Nil, << ToolCall("", "", f) >>, "") >> : f \in Fragments }

\* The ChatResponse built for one choice.
OpenAIResponse(choice) ==
    LET tc == choice.ToolCalls
        tool == IF Len(tc) > 0 /\ tc[1].Name # ""
                THEN << ToolCall(tc[1].ID, tc[1].Name, tc[1].Arguments) >>
                ELSE Nil
    IN  ChatResponse(choice.Content, Nil, tool, choice.FinishReason # "")

\* `if chatResp.Content != "" || chatResp.Thinking != "" ||
\*      chatResp.Tool != nil || chatResp.Done`
Worth(r) == r.Content # Nil \/ r.Thinking # Nil \/ r.Tool # Nil \/ r.Done

\* The record of the streamed calls after the tool-call deltas tcs.
RECURSIVE StreamedAfter(_, _)
StreamedAfter(st, tcs) ==
    IF tcs = << >> THEN st
    ELSE LET tc == Head(tcs)
         IN  StreamedAfter(IF tc.Name # ""
                           THEN Append(st, Streamed(tc.ID, tc.Name, tc.Arguments, FALSE))
                           ELSE AddFragment(st, tc.Arguments),
                           Tail(tcs))

\* The record of the streamed calls with all of them closed.
CloseAll(st) == [i \in DOMAIN st |-> [st[i] EXCEPT !.Closed = TRUE]]

\* Client.Chat up to NewStreaming: the model is required.
OpenAIChat(m) ==
    /\ Starts("openai", m)
    /\ IF m = Nil
       THEN /\ YieldErrorReturn(<<"openai: required model is empty">>)
            /\ UNCHANGED sent
       ELSE /\ sent' = Append(sent, m)
            /\ apc' = "stream"
            /\ UNCHANGED <<yielded, stoppedAt, currentToolUse, toolInput>>

\* One chunk of the stream: a ChatResponse per choice, yielded unless empty.
OpenAIChunk(choices, accept) ==
    /\ Receives("openai")
    /\ ~finished
    /\ \A i \in DOMAIN choices : \A j \in DOMAIN choices[i].ToolCalls :
          choices[i].ToolCalls[j].Name = "" =>
              (streamed # << >> /\ ~Last(streamed).Closed)
    /\ LET resps == [i \in DOMAIN choices |-> OpenAIResponse(choices[i])]
           done  == \E i \in DOMAIN choices : choices[i].FinishReason # ""
           calls == IF choices = << >> THEN << >> ELSE choices[1].ToolCalls
       IN  /\ YieldEach(SelectSeq(resps, Worth), accept, Nil, Nil, FALSE)
           /\ finished' = done
           /\ streamed' = IF done THEN CloseAll(StreamedAfter(streamed, calls))
                          ELSE StreamedAfter(streamed, calls)
    /\ UNCHANGED block

\* stream.Next() returns false: stream.Err() is yielded when there is one.
OpenAIStreamEnd(err) ==
    /\ StreamOver("openai")
    /\ err = Nil => finished
    /\ IF err # Nil
       THEN YieldErrorReturn(<<"openai: streaming: ">> \o err)
       ELSE ReturnQuietly

NextOpenAI ==
    \/ \E m \in Models : OpenAIChat(m)
    \/ \E choices \in OpenAIChunks, accept \in 0..1 : OpenAIChunk(choices, accept)
    \/ \E err \in StreamErrs : OpenAIStreamEnd(err)

\* ---- gemini

\* const DefaultModel
DefaultModel == <<"gemini-2.0-flash">>

\* The argument maps a provider sends with a function call: none, and x = 1.
ArgMaps == { "nil", "x1" }

\* json.Marshal of an argument map.
Marshal(args) == IF args = "nil" THEN <<"null">> ELSE Frag1 \o Frag2

\* A part of a candidate's content: part.Text, part.Thought and
\* part.FunctionCall (nil or one call: its name and argument map).
Part(text, thought, call) == [Text |-> text, Thought |-> thought, FunctionCall |-> call]

Parts ==
    { Part(<<"a">>, FALSE, Nil), Part(<<"t">>, TRUE, Nil), Part(Nil, FALSE, Nil),
      Part(Nil, FALSE, << [Name |-> "add", Args |-> "x1"] >>) }

\* candidate.Content: nil, or its parts (none, one, or two here).
Contents ==
    { Nil, << << >> >> } \cup { << <<p>> >> : p \in Parts }
    \cup { << << Part(Nil, FALSE, << [Name |-> "add", Args |-> "x1"] >>),
                 Part(Nil, FALSE, << [Name |-> "add", Args |-> "nil"] >>) >> >> }

\* The ChatResponse built for one part of a candidate with the given finish
\* reason.
GeminiResponse(part, finishReason) ==
    LET tool == IF part.FunctionCall # Nil
                THEN << ToolCall(part.FunctionCall[1].Name, part.FunctionCall[1].Name,
                                 Marshal(part.FunctionCall[1].Args)) >>
                ELSE Nil
    IN  ChatResponse(IF part.Thought THEN Nil ELSE part.Text,
                     IF part.Thought THEN part.Text ELSE Nil,
                     tool, finishReason # "")

\* The record of the streamed calls after the parts ps.
RECURSIVE StreamedParts(_, _)
StreamedParts(st, ps) ==
    IF ps = << >> THEN st
    ELSE LET fc == Head(ps).FunctionCall
         IN  StreamedParts(IF fc # Nil
                           THEN Append(st, Streamed(fc[1].Name, fc[1].Name,
                                                    Marshal(fc[1].Args), TRUE))
                           ELSE st,
                           Tail(ps))

\* Client.Chat up to GenerateContentStream: an empty model is replaced by
\* the default one.
GeminiChat(m) ==
    /\ Starts("gemini", m)
    /\ sent' = Append(sent, IF m = Nil THEN DefaultModel ELSE m)
    /\ apc' = "stream"
    /\ UNCHANGED <<yielded, stoppedAt, currentToolUse, toolInput>>

\* One response of the stream, with its one candidate: a ChatResponse per
\* part of the candidate's content, yielded unless empty.
GeminiChunk(content, finishReason, accept) ==
    /\ Receives("gemini")
    /\ ~finished
    /\ LET parts == IF content = Nil THEN << >> ELSE content[1]
           resps == [i \in DOMAIN parts |-> GeminiResponse(parts[i], finishReason)]
       IN  /\ YieldEach(SelectSeq(resps, Worth), accept, Nil, Nil, FALSE)
           /\ streamed' = StreamedParts(streamed, parts)
    /\ finished' = (finishReason # "")
    /\ UNCHANGED block

\* The stream yields an error, or is over.
GeminiStreamEnd(err) ==
    /\ StreamOver("gemini")
    /\ err = Nil => finished
    /\ IF err # Nil
       THEN YieldErrorReturn(<<"gemini: streaming: ">> \o err)
       ELSE ReturnQuietly

NextGemini ==
    \/ \E m \in Models : GeminiChat(m)
    \/ \E content \in Contents, finishReason \in {"", "STOP"}, accept \in 0..2 :
          GeminiChunk(content, finishReason, accept)
    \/ \E err \in StreamErrs : GeminiStreamEnd(err)

\* ---- claudecode

\* The events of a stream_event line: event.type with its content block or
\* delta.
StreamEvents ==
    { [Type |-> "content_block_start", Kind |-> "text", ID |-> "", Name |-> ""],
      [Type |-> "content_block_stop"],
      [Type |-> "message_stop"] }
    \cup { [Type |-> "content_block_start", Kind |-> "tool_use", ID |-> h.ID, Name |-> h.Name] :
             h \in CallHeads }
    \cup { [Type |-> "content_block_delta", Kind |-> "text_delta", Text |-> t] : t \in Texts }
    \cup { [Type |-> "content_block_delta", Kind |-> "thinking_delta", Text |-> t] : t \in Texts }
    \cup { [Type |-> "content_block_delta", Kind |-> "input_json_delta", Text |-> f] :
             f \in Fragments }

\* buildArgs: the --model flag is added when the request names a model.
buildArgs(m) == IF m # Nil THEN <<"--print", "--model">> \o m ELSE <<"--print">>

\* handleStreamEvent: the response to yield (nil or one) and the locals
\* after it.
handleStreamEvent(evt, ctu, ti) ==
    CASE evt.Type = "content_block_start" ->
            IF evt.Kind = "tool_use"
            THEN [resp |-> Nil, ctu |-> <<ToolCall(evt.ID, evt.Name, Nil)>>, ti |-> Nil]
            ELSE [resp |-> Nil, ctu |-> ctu, ti |-> ti]
      [] evt.Type = "content_block_delta" ->
            CASE evt.Kind = "text_delta" ->
                    [resp |-> IF evt.Text # Nil
                              THEN <<ChatResponse(evt.Text, Nil, Nil, FALSE)>> ELSE Nil,
                     ctu |-> ctu, ti |-> ti]
              [] evt.Kind = "thinking_delta" ->
                    [resp |-> IF evt.Text # Nil
                              THEN <<ChatResponse(Nil, evt.Text, Nil, FALSE)>> ELSE Nil,
                     ctu |-> ctu, ti |-> ti]
              [] OTHER ->
                    [resp |-> Nil, ctu |-> ctu, ti |-> ti \o evt.Text]
      [] evt.Type = "content_block_stop" ->
            IF ctu # Nil
            THEN [resp |-> <<ChatResponse(Nil, Nil,
                                <<ToolCall(ctu[1].ID, ctu[1].Name, ti)>>, FALSE)>>,
                  ctu |-> Nil, ti |-> Nil]
            ELSE [resp |-> Nil, ctu |-> ctu, ti |-> ti]
      [] OTHER -> [resp |-> Nil, ctu |-> ctu, ti |-> ti]

\* An item of the content of an assistant message.
Item(type, text, id, name, input) ==
    [Type |-> type, Text |-> text, ID |-> id, Name |-> name, Input |-> input]

\* The content of the assistant message that repeats what was streamed: the
\* text, if any, and the tool calls st with their complete input.
MessageItems(text, st) ==
    (IF text # Nil THEN << Item("text", text, "", "", Nil) >> ELSE << >>)
    \o [i \in DOMAIN st |-> Item("tool_use", Nil, st[i].ID, st[i].Name, st[i].Frags)]

\* The response handleMessageEvent builds for one item.
ItemResponse(item) ==
    CASE item.Type = "text" -> ChatResponse(item.Text, Nil, Nil, FALSE)
      [] item.Type = "thinking" -> ChatResponse(Nil, item.Text, Nil, FALSE)
      [] OTHER -> ChatResponse(Nil, Nil,
                               <<ToolCall(item.ID, item.Name, item.Input)>>, FALSE)

\* handleMessageEvent: one response per item, empty text items skipped.
handleMessageEvent(items) ==
    SelectSeq([i \in DOMAIN items |-> ItemResponse(items[i])], Worth)

\* Client.Chat up to cmd.Start: the command line is built and the command
\* started, which can fail.
ClaudeCodeChat(m, started) ==
    /\ Starts("claudecode", m)
    /\ IF started
       THEN /\ sent' = Append(sent, buildArgs(m))
            /\ apc' = "stream"
            /\ UNCHANGED <<yielded, stoppedAt, currentToolUse, toolInput>>
       ELSE /\ YieldErrorReturn(<<"claudecode: starting command">>)
            /\ UNCHANGED sent

\* A stream_event line.  The events follow the protocol: deltas inside their
\* block, one block at a time.
ClaudeCodeStreamEvent(evt, accept) ==
    /\ Receives("claudecode")
    /\ ~finished
    /\ CASE evt.Type = "content_block_start" -> block = "none"
         [] evt.Type = "content_block_stop" -> block \in {"text", "tool"}
         [] evt.Type = "content_block_delta" ->
               IF evt.Kind = "input_json_delta" THEN block = "tool" ELSE block = "text"
         [] OTHER -> block = "none"
    /\ LET h == handleStreamEvent(evt, currentToolUse, toolInput)
       IN  YieldEach(h.resp, accept, h.ctu, h.ti, FALSE)
    /\ block' = CASE evt.Type = "content_block_start" ->
                       IF evt.Kind = "tool_use" THEN "tool" ELSE "text"
                  [] evt.Type = "content_block_stop" -> "none"
                  [] OTHER -> block
    /\ streamed' =
          CASE evt.Type = "content_block_start" /\ evt.Kind = "tool_use" ->
                  Append(streamed, Streamed(evt.ID, evt.Name, Nil, FALSE))
            [] evt.Type = "content_block_delta" /\ evt.Kind = "input_json_delta" ->
                  AddFragment(streamed, evt.Text)
            [] evt.Type = "content_block_stop" /\ block = "tool" -> CloseLast(streamed)
            [] OTHER -> streamed
    /\ UNCHANGED finished

\* An assistant line: the complete message, which --include-partial-messages
\* prints after the stream events of the same message.
ClaudeCodeAssistant(text, accept) ==
    /\ Receives("claudecode")
    /\ ~finished
    /\ block = "none"
    /\ text # Nil => \E i \in DOMAIN yielded : yielded[i].Content = text
    /\ MessageItems(text, streamed) # << >>
    /\ block' = "echoed"
    /\ YieldEach(handleMessageEvent(MessageItems(text, streamed)), accept,
                 currentToolUse, toolInput, FALSE)
    /\ UNCHANGED <<streamed, finished>>

\* A result line: the end of the run.
ClaudeCodeResult(accept) ==
    /\ Receives("claudecode")
    /\ ~finished
    /\ block \in {"none", "echoed"}
    /\ finished' = TRUE
    /\ YieldEach(<<ChatResponse(Nil, Nil, Nil, TRUE)>>, accept,
                 currentToolUse, toolInput, FALSE)
    /\ UNCHANGED <<block, streamed>>

\* A line of another type, or one that does not parse: skipped.
ClaudeCodeOtherLine ==
    /\ Receives("claudecode")
    /\ UNCHANGED <<yielded, stoppedAt, apc, currentToolUse, toolInput,
                   block, streamed, finished>>

\* The output is over: scanner.Err() or the error of cmd.Wait() is yielded
\* when there is one.
ClaudeCodeExit(err) ==
    /\ StreamOver("claudecode")
    /\ err = Nil => finished
    /\ IF err # Nil
       THEN YieldErrorReturn(<<"claudecode: command failed: ">> \o err)
       ELSE ReturnQuietly

NextClaudeCode ==
    \/ \E m \in Models, started \in BOOLEAN : ClaudeCodeChat(m, started)
    \/ \E evt \in StreamEvents, accept \in 0..1 : ClaudeCodeStreamEvent(evt, accept)
    \/ \E text \in Texts, accept \in 0..3 : ClaudeCodeAssistant(text, accept)
    \/ \E accept \in 0..1 : ClaudeCodeResult(accept)
    \/ ClaudeCodeOtherLine
    \/ \E err \in StreamErrs : ClaudeCodeExit(err)

\* ---- ollama

\* A response of the stream: resp.Message.Content, resp.Message.Thinking,
\* resp.Message.ToolCalls (name and argument map each) and resp.Done.
OllamaResponses ==
    { [Content |-> r[1], Thinking |-> r[2], ToolCalls |-> r[3], Done |-> d] :
        r \in { << <<"a">>, Nil, << >> >>,
                << Nil, <<"t">>, << >> >>,
                << Nil, Nil, << >> >>,
                << Nil, Nil, << [Name |-> "add", Args |-> "x1"] >> >>,
                << Nil, Nil, << [Name |-> "add", Args |-> "x1"],
                                [Name |-> "add", Args |-> "nil"] >> >> },
        d \in BOOLEAN }

\* The ChatResponse the callback builds: the first tool call, if any.
OllamaResponse(resp) ==
    ChatResponse(resp.Content, resp.Thinking,
                 IF Len(resp.ToolCalls) > 0
                 THEN << ToolCall("", resp.ToolCalls[1].Name,
                                  Marshal(resp.ToolCalls[1].Args)) >>
                 ELSE Nil,
                 resp.Done)

\* Client.Chat up to oc.Chat: the model is required.
OllamaChat(m) ==
    /\ Starts("ollama", m)
    /\ IF m = Nil
       THEN /\ YieldErrorReturn(<<"ollama: required model is empty">>)
            /\ UNCHANGED sent
       ELSE /\ sent' = Append(sent, m)
            /\ apc' = "stream"
            /\ UNCHANGED <<yielded, stoppedAt, currentToolUse, toolInput>>

\* The callback of oc.Chat for one response: the ChatResponse is yielded;
\* when yield returns false the callback returns context.Canceled, oc.Chat
\* returns it, and Chat yields it as an error.
OllamaCallback(resp, keep) ==
    /\ Receives("ollama")
    /\ ~finished
    /\ finished' = resp.Done
    /\ streamed' = streamed \o
          [i \in DOMAIN resp.ToolCalls |->
              Streamed("", resp.ToolCalls[i].Name, Marshal(resp.ToolCalls[i].Args), TRUE)]
    /\ IF keep
       THEN /\ yielded' = Append(yielded, OllamaResponse(resp))
            /\ UNCHANGED <<stoppedAt, apc>>
       ELSE /\ yielded' = yielded \o
                  << OllamaResponse(resp),
                     ChatError(<<"ollama: chat: ", "context canceled">>) >>
            /\ stoppedAt' = Len(yielded) + 1
            /\ apc' = "returned"
    /\ UNCHANGED <<currentToolUse, toolInput, block>>

\* oc.Chat returns: its error is yielded when there is one.
OllamaEnd(err) ==
    /\ StreamOver("ollama")
    /\ err = Nil => finished
    /\ IF err # Nil
       THEN YieldErrorReturn(<<"ollama: chat: ">> \o err)
       ELSE ReturnQuietly

NextOllama ==
    \/ \E m \in Models : OllamaChat(m)
    \/ \E resp \in OllamaResponses, keep \in BOOLEAN : OllamaCallback(resp, keep)
    \/ \E err \in StreamErrs : OllamaEnd(err)

NextProvider ==
    \/ NextAnthropic
    \/ NextOpenAI
    \/ NextGemini
    \/ NextClaudeCode
    \/ NextOllama

\* ------------------------------------------------------------ model cache

Callers == 1..MaxCalls

\* What the listing function fn can return: (models, err).  Its answer can
\* change from call to call, and can be an empty list.
Listings ==
    { [models |-> << >>, err |-> Nil],
      [models |-> <<"m1">>, err |-> Nil],
      [models |-> <<"m1", "m2">>, err |-> Nil],
      [models |-> << >>, err |-> <<"listing failed">>] }

\* What a call returns: the list, the error, and whether the slice returned
\* is the cache's own (shared) or a copy of it.
Returned(list, err, shared) == [models |-> list, err |-> err, shared |-> shared]

NotReturned == Returned(<< >>, <<"running">>, FALSE)

\* A lookup that never finds the cache filled.
LookupMiss(c) == Nil

\* `if cached != nil`: the cached list under the read lock, or nil.
Lookup(c) == c

\* append([]*llm.Model{}, models...): a fresh slice with the same elements.
CopyOf(list) == list

InitCache ==
    /\ cached = Nil
    /\ cpc = [c \in Callers |-> "idle"]
    /\ local = [c \in Callers |-> NotReturned]
    /\ cret = [c \in Callers |-> NotReturned]
    /\ afterOK = [c \in Callers |-> FALSE]

\* Call c of the memoized function starts: under the read lock, a filled
\* cache is copied and returned; otherwise the call goes on to fn.
CacheLookup(c) ==
    /\ UNCHANGED nonCacheVars
    /\ cpc[c] = "idle"
    /\ afterOK' = [afterOK EXCEPT ![c] =
                      \E d \in Callers : cpc[d] = "done" /\ cret[d].err = Nil]
    /\ IF Lookup(cached) # Nil
       THEN /\ cret' = [cret EXCEPT ![c] = Returned(CopyOf(Lookup(cached)[1]), Nil, FALSE)]
            /\ cpc' = [cpc EXCEPT ![c] = "done"]
       ELSE /\ cpc' = [cpc EXCEPT ![c] = "fn"]
            /\ UNCHANGED cret
    /\ UNCHANGED <<cached, local>>

\* Call c: fn(ctx) returns r, with no lock held; an error is returned as
\* it is.
CacheFn(c, r) ==
    /\ UNCHANGED nonCacheVars
    /\ cpc[c] = "fn"
    /\ local' = [local EXCEPT ![c] = Returned(r.models, r.err, FALSE)]
    /\ IF r.err # Nil
       THEN /\ cret' = [cret EXCEPT ![c] = Returned(Nil, r.err, FALSE)]
            /\ cpc' = [cpc EXCEPT ![c] = "done"]
       ELSE /\ cpc' = [cpc EXCEPT ![c] = "store"]
            /\ UNCHANGED cret
    /\ UNCHANGED <<cached, afterOK>>

\* Call c: under the write lock, the cache is replaced by a copy of the
\* list fn returned.
CacheStore(c) ==
    /\ UNCHANGED nonCacheVars
    /\ cpc[c] = "store"
    /\ cached' = << CopyOf(local[c].models) >>
    /\ cpc' = [cpc EXCEPT ![c] = "return"]
    /\ UNCHANGED <<local, cret, afterOK>>

\* Call c: `return cached, nil`, read after the write lock was released:
\* the slice returned is the cache's own, as it is at this moment.
CacheReturn(c) ==
    /\ UNCHANGED nonCacheVars
    /\ cpc[c] = "return"
    /\ cret' = [cret EXCEPT ![c] = Returned(cached[1], Nil, TRUE)]
    /\ cpc' = [cpc EXCEPT ![c] = "done"]
    /\ UNCHANGED <<cached, local, afterOK>>

NextCache ==
    \/ \E c \in Callers : CacheLookup(c)
    \/ \E c \in Callers, r \in Listings : CacheFn(c, r)
    \/ \E c \in Callers : CacheStore(c)
    \/ \E c \in Callers : CacheReturn(c)

\* ----------------------------------------------------------- Client.Models

\* c.providers, by position.
Providers == 1..MaxProviders

\* llm.Model; provider and name are numbered in the order of their strings.
Model(provider, name) == [Provider |-> provider, Name |-> name]

\* What the Models of provider p can return: (m, err); its lists are in any
\* order and name each model once.
ProviderListings(p) ==
    { [m |-> << Model(p, 1) >>, err |-> Nil],
      [m |-> << Model(p, 2), Model(p, 1) >>, err |-> Nil],
      [m |-> << >>, err |-> <<"listing failed">>] }

NotListed == [m |-> << >>, err |-> <<"running">>]

\* The less function of sort.Slice: by provider, then by name.
Less(a, b) ==
    IF a.Provider = b.Provider THEN a.Name < b.Name ELSE a.Provider < b.Provider

\* x put into the sorted list l at its place.
RECURSIVE Insert(_, _)
Insert(x, l) ==
    IF l = << >> THEN << x >>
    ELSE IF Less(x, Head(l)) THEN << x >> \o l
    ELSE << Head(l) >> \o Insert(x, Tail(l))

\* sort.Slice(models, less)
RECURSIVE Sort(_)
Sort(l) == IF l = << >> THEN l ELSE Insert(Head(l), Sort(Tail(l)))

InitList ==
    /\ models = << >>
    /\ gpc = [p \in Providers |-> "idle"]
    /\ listed = [p \in Providers |-> NotListed]
    /\ seen = [p \in Providers |-> << >>]
    /\ listErr = Nil
    /\ listRet = Nil

\* Client.Models is called: a goroutine per provider is started.
ClientModels ==
    /\ UNCHANGED nonListVars
    /\ \A p \in Providers : gpc[p] = "idle"
    /\ gpc' = [p \in Providers |-> "spawned"]
    /\ UNCHANGED <<models, listed, seen, listErr, listRet>>

\* The goroutine of provider p: provider.Models returns r; an error ends the
\* goroutine and goes to the errgroup.
ListReturn(p, r) ==
    /\ UNCHANGED nonListVars
    /\ gpc[p] = "spawned"
    /\ listed' = [listed EXCEPT ![p] = r]
    /\ IF r.err # Nil
       THEN /\ listErr' = FirstErr(listErr, r.err)
            /\ gpc' = [gpc EXCEPT ![p] = "done"]
       ELSE /\ gpc' = [gpc EXCEPT ![p] = "listed"]
            /\ UNCHANGED listErr
    /\ UNCHANGED <<models, seen, listRet>>

\* The goroutine of provider p: `models = append(models, m...)` reads
\* models.  No lock orders this append with the other goroutines'.
AppendRead(p) ==
    /\ UNCHANGED nonListVars
    /\ gpc[p] = "listed"
    /\ seen' = [seen EXCEPT ![p] = models]
    /\ gpc' = [gpc EXCEPT ![p] = "read"]
    /\ UNCHANGED <<models, listed, listErr, listRet>>

\* The goroutine of provider p: the append writes models and the goroutine
\* ends.
AppendWrite(p) ==
    /\ UNCHANGED nonListVars
    /\ gpc[p] = "read"
    /\ models' = seen[p] \o listed[p].m
    /\ gpc' = [gpc EXCEPT ![p] = "done"]
    /\ UNCHANGED <<listed, seen, listErr, listRet>>

\* eg.Wait returns when every goroutine has ended: its error is returned,
\* or the sorted models.
ClientModelsReturn ==
    /\ UNCHANGED nonListVars
    /\ listRet = Nil
    /\ \A p \in Providers : gpc[p] = "done"
    /\ listRet' = << IF listErr # Nil
                     THEN [models |-> Nil, err |-> listErr]
                     ELSE [models |-> Sort(models), err |-> Nil] >>
    /\ UNCHANGED <<models, gpc, listed, seen, listErr>>

NextList ==
    \/ ClientModels
    \/ \E p \in Providers : \E r \in ProviderListings(p) : ListReturn(p, r)
    \/ \E p \in Providers : AppendRead(p)
    \/ \E p \in Providers : AppendWrite(p)
    \/ ClientModelsReturn

\* ------------------------------------------------------------ typed tools

\* The input type In of the tool: a struct with one integer field, x.
ZeroIn == [x |-> 0]

\* The argument texts a tool call can carry: none at all, the empty object,
\* null, an object that sets x, a blank, a truncated object, and an object
\* whose x is a string.
FragStr == <<"\"a\"}">>
RawArguments ==
    { << >>, <<"{}">>, <<"null">>, Frag1 \o Frag2, Blank \o <<"{}">>,
      Blank, Frag1, Frag1 \o FragStr }

SyntaxErr == <<"unexpected end of JSON input">>
TypeErr == <<"json: cannot unmarshal string into Go struct field .x of type int">>

\* The decoder skips the white space around a value.
RECURSIVE SkipSpace(_)
SkipSpace(s) ==
    IF s = << >> THEN s
    ELSE IF <<Head(s)>> = Blank THEN SkipSpace(Tail(s))
    ELSE IF <<Last(s)>> = Blank THEN SkipSpace(SubSeq(s, 1, Len(s) - 1))
    ELSE s

\* json.Unmarshal(args, &in) for in of type In, starting from the zero value:
\* null and {} leave it alone, {"x":1} sets x, a string for x is a type
\* error, anything else a syntax error.
Unmarshal(args) ==
    LET v == SkipSpace(args)
    IN  IF v = <<"{}">> \/ v = <<"null">> THEN [in |-> ZeroIn, err |-> Nil]
        ELSE IF v = Frag1 \o Frag2 THEN [in |-> [x |-> 1], err |-> Nil]
        ELSE IF v = Frag1 \o FragStr THEN [in |-> ZeroIn, err |-> TypeErr]
        ELSE [in |-> ZeroIn, err |-> SyntaxErr]

\* A decoding step that hands every argument text to json.Unmarshal.
DecodeAlways(args) == Unmarshal(args)

\* `var in In; if len(args) > 0 { json.Unmarshal(args, &in) }`
Decode(args) ==
    IF Len(args) > 0 THEN Unmarshal(args) ELSE [in |-> ZeroIn, err |-> Nil]

\* What the tool function does with its input: it succeeds or it fails.
FnBehaviours == { "ok", "fail" }

\* t.run(ctx, in) of the tool "add": x + 1, or an error.
run(fn, in) ==
    IF fn = "fail" THEN [out |-> 0, err |-> <<"boom">>]
    ELSE [out |-> in.x + 1, err |-> Nil]

\* json.Marshal of the integers the tool returns.
MarshalInt(n) == << <<"0", "1", "2">>[n + 1] >>

\* fmt.Errorf("tool %s: unmarshaling input: %w", t.name, err)
UnmarshalingErr(name, err) == <<"tool ", name, ": unmarshaling input: ">> \o err

\* A Run that calls the tool function whatever the decoding said.
typedFuncRunRegardless(name, args, fn) ==
    LET d == Decode(args)
        r == run(fn, d.in)
    IN  [args |-> args, invoked |-> TRUE, in |-> d.in, fn |-> fn,
         result |-> IF r.err # Nil THEN Nil ELSE MarshalInt(r.out),
         err |-> r.err]

\* typedFunc.Run: the arguments are decoded, the function called with the
\* input, its output marshalled.  The record also says whether and with what
\* input the function was invoked.
typedFuncRun(name, args, fn) ==
    LET d == Decode(args)
        r == run(fn, d.in)
    IN  IF d.err # Nil
        THEN [args |-> args, invoked |-> FALSE, in |-> d.in, fn |-> fn,
              result |-> Nil, err |-> UnmarshalingErr(name, d.err)]
        ELSE [args |-> args, invoked |-> TRUE, in |-> d.in, fn |-> fn,
              result |-> IF r.err # Nil THEN Nil ELSE MarshalInt(r.out),
              err |-> r.err]

\* The call the agent loop runs: the tool "add" under id1.
RunCall == [ID |-> "id1", Name |-> "add"]

InitTool ==
    /\ tpc = "request"
    /\ targs = Nil
    /\ truns = << >>
    /\ fed = << >>

\* A turn has ended with a tool call carrying args: the loop is about to
\* call tool.Run(ctx, toolCall.Arguments).
ToolCallArrives(args) ==
    /\ UNCHANGED nonToolVars
    /\ tpc = "request"
    /\ Len(truns) < MaxRuns
    /\ targs' = args
    /\ tpc' = "tool"
    /\ UNCHANGED <<truns, fed>>

\* tool.Run runs and returns; its result or its error becomes a tool-role
\* message and the loop continues.
ToolRun(fn) ==
    LET r == typedFuncRun(RunCall.Name, targs, fn)
    IN  /\ UNCHANGED nonToolVars
        /\ tpc = "tool"
        /\ truns' = Append(truns, r)
        /\ fed' = Append(fed, ToolResultMessage(RunCall, r))
        /\ tpc' = "request"
        /\ targs' = Nil

NextTool ==
    \/ \E args \in RawArguments : ToolCallArrives(args)
    \/ \E fn \in FnBehaviours : ToolRun(fn)

\* ------------------------------------------------------- sandbox commands

\* The back-ends: local and container run the command with os/exec, ssh in
\* an ssh session, sprite through an HTTP call.
Backends == { "local", "container", "ssh", "sprite" }

Pipes == { "stdin", "stdout", "stderr" }
Streams == { "stdout", "stderr" }

\* The exit statuses a command can end with.
ExitStatuses == { 0, 42 }

\* strconv.Itoa over the exit codes.
Itoa(n) == IF n = 0 THEN "0" ELSE IF n = 42 THEN "42" ELSE "-1"

Canceled == <<"context canceled">>
DeadlineExceeded == <<"context deadline exceeded">>
CtxErrs == { Canceled, DeadlineExceeded }

\* The command is an exec.Cmd underneath.
OsExec == backend \in { "local", "container" }

\* ssh, ensureSession: nil when the session exists or can be made.
ensureSession ==
    IF backend # "ssh" \/ session THEN Nil
    ELSE IF ctxErr # Nil THEN ctxErr
    ELSE IF ~dialOK THEN <<"ssh sandbox: dial">>
    ELSE Nil

\* c.session != nil after a method has called ensureSession.
Ensured == session \/ (backend = "ssh" /\ ensureSession = Nil)

\* A pipe request that only refuses a pipe handed out before.
PipeErrOnceOnly(p) ==
    IF ensureSession # Nil THEN ensureSession
    ELSE IF p \in pipeSet THEN <<"pipe already set">>
    ELSE Nil

\* The error StdinPipe, StdoutPipe, StderrPipe return: nil when the pipe is
\* handed out.  os/exec and ssh refuse a pipe that is already set, then one
\* asked for after the process started; sprite checks in the other order.
PipeErr(p) ==
    IF ensureSession # Nil THEN ensureSession
    ELSE IF backend = "sprite"
    THEN IF begun THEN <<"sprite sandbox: pipe after command started">>
         ELSE IF p \in pipeSet THEN <<"sprite sandbox: pipe already called">>
         ELSE Nil
    ELSE IF p \in pipeSet THEN <<"pipe already set">>
    ELSE IF begun THEN <<"pipe after process started">>
    ELSE Nil

\* StdinPipe, StdoutPipe or StderrPipe is called.
PipeCall(p) ==
    /\ pipeSet' = IF PipeErr(p) = Nil THEN pipeSet \cup {p} ELSE pipeSet
    /\ session' = Ensured
    /\ pipeLog' = Append(pipeLog, [pipe |-> p, late |-> begun,
                                   ok |-> PipeErr(p) = Nil])

\* The error Start returns; ok says whether the process can be launched.  An
\* ssh session that an early Wait has closed cannot start a command.
StartErr(ok) ==
    IF ensureSession # Nil THEN ensureSession
    ELSE IF backend = "sprite"
    THEN IF begun THEN <<"sprite sandbox: command already started">> ELSE Nil
    ELSE IF begun THEN <<"already started">>
    ELSE IF OsExec /\ ctxErr # Nil THEN ctxErr
    ELSE IF ~ok \/ (waitRet # << >> /\ waitRet[1].closed) THEN <<"start failed">>
    ELSE Nil

\* Start is called.  A command started under a context that is already done
\* is ended at once (ssh closes the session, sprite's run returns ctx.Err()).
StartCall(ok) ==
    /\ session' = Ensured
    /\ begun' = (begun \/ StartErr(ok) = Nil)
    /\ proc' = IF StartErr(ok) # Nil THEN proc
               ELSE IF ctxErr # Nil THEN "killed" ELSE "running"

\* What the Wait underneath returns once the process is over: the error,
\* whether it is the exit error type the wrapper looks for, and its code.
\* A process killed for its context is an *exec.ExitError with code -1
\* (signal: killed); a closed ssh session is an ExitMissingError.
InnerWait ==
    IF OsExec
    THEN IF ~begun THEN [err |-> <<"exec: not started">>, exit |-> FALSE, code |-> 0]
         ELSE IF proc = "killed"
         THEN [err |-> <<"signal: killed">>, exit |-> TRUE, code |-> -1]
         ELSE IF status = 0 THEN [err |-> Nil, exit |-> FALSE, code |-> 0]
         ELSE [err |-> <<"exit status", Itoa(status)>>, exit |-> TRUE, code |-> status]
    ELSE IF backend = "ssh"
    THEN IF ~begun THEN [err |-> <<"ssh: session not started">>, exit |-> FALSE, code |-> 0]
         ELSE IF proc = "killed"
         THEN [err |-> <<"wait: remote command exited without exit status">>,
               exit |-> FALSE, code |-> 0]
         ELSE IF status = 0 THEN [err |-> Nil, exit |-> FALSE, code |-> 0]
         ELSE [err |-> <<"Process exited with status", Itoa(status)>>,
               exit |-> TRUE, code |-> status]
    ELSE IF proc = "killed"
         THEN [err |-> <<"sprite sandbox: execute request: ">> \o ctxErr,
               exit |-> FALSE, code |-> 0]
         ELSE IF status = 0 THEN [err |-> Nil, exit |-> FALSE, code |-> 0]
         ELSE [err |-> <<"sandbox: exit code", Itoa(status)>>,
               exit |-> TRUE, code |-> status]

\* A Wait that leaves the exit code at -1 whenever the process failed.
CmdWaitResultNoCode ==
    LET w == InnerWait
    IN  IF ensureSession # Nil THEN [err |-> ensureSession, code |-> exitCode]
        ELSE IF w.err # Nil THEN [err |-> w.err, code |-> -1]
        ELSE [err |-> Nil, code |-> 0]

\* command.Wait: the error it returns and the exit code it leaves.
CmdWaitResult ==
    LET w == InnerWait
    IN  IF ensureSession # Nil THEN [err |-> ensureSession, code |-> exitCode]
        ELSE IF backend = "sprite"
        THEN IF ~begun
             THEN [err |-> <<"sprite sandbox: command not started">>,
                   code |-> exitCode]
             ELSE IF w.err # Nil /\ ctxErr # Nil THEN [err |-> ctxErr, code |-> -1]
             ELSE [err |-> w.err, code |-> exitCode]
        ELSE IF w.err # Nil
        THEN IF w.exit THEN [err |-> w.err, code |-> w.code]
             ELSE IF ctxErr # Nil THEN [err |-> ctxErr, code |-> -1]
             ELSE [err |-> w.err, code |-> -1]
        ELSE [err |-> Nil, code |-> 0]

\* Wait is called and returns when the process is over; it is not called
\* again for a command it has waited for.  The Wait of os/exec closes the
\* parent's ends of the pipes after the process exited, that of ssh closes
\* the session.
CmdWaitCall ==
    /\ proc # "running"
    /\ IF waitRet = << >> THEN TRUE ELSE waitRet[1].at = "none"
    /\ waitRet' = << [err |-> CmdWaitResult.err, at |-> proc,
                      closed |-> backend = "ssh" /\ Ensured] >>
    /\ exitCode' = CmdWaitResult.code
    /\ session' = Ensured
    /\ pipeClosed' = (pipeClosed \/ (OsExec /\ begun))

NoOutput == [s \in Streams |-> << >>]

InitCmd ==
    /\ backend = "none"
    /\ dialOK = TRUE
    /\ ctxErr = Nil
    /\ proc = "none"
    /\ status = 0
    /\ pipeSet = {}
    /\ begun = FALSE
    /\ session = FALSE
    /\ exitCode = -1
    /\ waitRet = << >>
    /\ pipeLog = << >>
    /\ nops = 0
    /\ xpc = "idle"
    /\ wrote = NoOutput
    /\ buf = NoOutput
    /\ pipeClosed = FALSE
    /\ copyDone = [s \in Streams |-> FALSE]
    /\ collectRet = << >>

\* Sandbox.CommandContext of back-end b: the handle is built with exit code
\* -1, nothing runs yet.  d says whether an ssh host answers.
CommandContext(b, d) ==
    /\ UNCHANGED nonCmdVars
    /\ backend = "none"
    /\ backend' = b
    /\ dialOK' = d
    /\ UNCHANGED <<ctxErr, proc, status, pipeSet, begun, session, exitCode,
                   waitRet, pipeLog, nops, xpc, wrote, buf, pipeClosed,
                   copyDone, collectRet>>

\* The caller asks for a pipe.
CallPipe(p) ==
    /\ UNCHANGED nonCmdVars
    /\ backend # "none" /\ xpc = "idle"
    /\ nops < MaxOps
    /\ nops' = nops + 1
    /\ PipeCall(p)
    /\ UNCHANGED <<backend, dialOK, ctxErr, proc, status, begun, exitCode,
                   waitRet, xpc, wrote, buf, pipeClosed, copyDone, collectRet>>

\* The caller calls Start.
CallStart(ok) ==
    /\ UNCHANGED nonCmdVars
    /\ backend # "none" /\ xpc = "idle"
    /\ nops < MaxOps
    /\ nops' = nops + 1
    /\ StartCall(ok)
    /\ UNCHANGED <<backend, dialOK, ctxErr, status, pipeSet, exitCode, waitRet,
                   pipeLog, xpc, wrote, buf, pipeClosed, copyDone,
                   collectRet>>

\* The caller calls Wait.
CallWait ==
    /\ UNCHANGED nonCmdVars
    /\ backend # "none" /\ xpc = "idle"
    /\ nops < MaxOps
    /\ nops' = nops + 1
    /\ CmdWaitCall
    /\ UNCHANGED <<backend, dialOK, ctxErr, proc, status, pipeSet, begun,
                   pipeLog, xpc, wrote, buf, copyDone, collectRet>>

\* The process exits by itself with status n.  sprite's run records the exit
\* code as it learns it; its pipes are synchronous, so all it wrote was read.
ProcExit(n) ==
    /\ UNCHANGED nonCmdVars
    /\ proc = "running"
    /\ backend = "sprite" => \A s \in Streams : buf[s] = wrote[s]
    /\ proc' = "exited"
    /\ status' = n
    /\ exitCode' = IF backend = "sprite" THEN n ELSE exitCode
    /\ UNCHANGED <<backend, dialOK, ctxErr, pipeSet, begun, session, waitRet,
                   pipeLog, nops, xpc, wrote, buf, pipeClosed, copyDone,
                   collectRet>>

\* The context is cancelled or its deadline passes, before the command was
\* started or while it runs: a running process is killed (os/exec), its
\* session closed (ssh), its request aborted (sprite).
Cancel(e) ==
    /\ UNCHANGED nonCmdVars
    /\ backend # "none" /\ xpc # "returned"
    /\ ctxErr = Nil
    /\ proc \in { "none", "running" }
    /\ ctxErr' = e
    /\ proc' = IF proc = "running" THEN "killed" ELSE proc
    /\ UNCHANGED <<backend, dialOK, status, pipeSet, begun, session, exitCode,
                   waitRet, pipeLog, nops, xpc, wrote, buf, pipeClosed,
                   copyDone, collectRet>>

NextCmd ==
    \/ \E b \in Backends : \E d \in (IF b = "ssh" THEN BOOLEAN ELSE {TRUE}) :
          CommandContext(b, d)
    \/ \E p \in Pipes : CallPipe(p)
    \/ \E ok \in BOOLEAN : CallStart(ok)
    \/ CallWait
    \/ \E n \in ExitStatuses : ProcExit(n)
    \/ \E e \in CtxErrs : Cancel(e)

\* ---- Execute and Collect

\* Result{}
EmptyResult == [Stdout |-> << >>, Stderr |-> << >>, ExitCode |-> 0]

\* The k-th chunk the command writes to stream s.
Chunk(s, k) ==
    IF s = "stdout" THEN <<"o1", "o2", "o3">>[k] ELSE <<"e1", "e2", "e3">>[k]

\* errors.Is(err, context.Canceled) || errors.Is(err, context.DeadlineExceeded):
\* the error is the context's, or wraps it with %w.
IsCtxErr(err) == err # Nil /\ <<Last(err)>> \in CtxErrs

\* Collect returns (result, err).
CollectReturns(result, err) ==
    /\ collectRet' = << [result |-> result, err |-> err] >>
    /\ xpc' = "returned"

\* What Collect returns once Wait and both copies are over.
CollectResult(waitErr) ==
    LET result == [Stdout |-> buf["stdout"], Stderr |-> buf["stderr"],
                   ExitCode |-> exitCode]
    IN  IF waitErr # Nil
        THEN IF IsCtxErr(waitErr) THEN [result |-> EmptyResult, err |-> waitErr]
             ELSE IF result.ExitCode >= 0 THEN [result |-> result, err |-> Nil]
             ELSE [result |-> EmptyResult, err |-> waitErr]
        ELSE [result |-> result, err |-> Nil]

\* sandbox.Execute: the command is built and handed to Collect.
Execute(b, d) ==
    /\ UNCHANGED nonCmdVars
    /\ backend = "none"
    /\ backend' = b
    /\ dialOK' = d
    /\ xpc' = "stdout"
    /\ UNCHANGED <<ctxErr, proc, status, pipeSet, begun, session, exitCode,
                   waitRet, pipeLog, nops, wrote, buf, pipeClosed, copyDone,
                   collectRet>>

\* Collect asks for the stdout pipe, then for the stderr pipe.
CollectPipe(p) ==
    /\ UNCHANGED nonCmdVars
    /\ xpc = p
    /\ PipeCall(p)
    /\ IF PipeErr(p) # Nil
       THEN CollectReturns(EmptyResult, <<"sandbox: ", p, " pipe: ">> \o PipeErr(p))
       ELSE /\ xpc' = IF p = "stdout" THEN "stderr" ELSE "start"
            /\ UNCHANGED collectRet
    /\ UNCHANGED <<backend, dialOK, ctxErr, proc, status, begun, exitCode,
                   waitRet, nops, wrote, buf, pipeClosed, copyDone>>

\* Collect starts the command and, when that worked, the two goroutines that
\* copy the pipes into stdoutBuf and stderrBuf.
CollectStart(ok) ==
    /\ UNCHANGED nonCmdVars
    /\ xpc = "start"
    /\ StartCall(ok)
    /\ IF StartErr(ok) # Nil
       THEN CollectReturns(EmptyResult, StartErr(ok))
       ELSE xpc' = "wait" /\ UNCHANGED collectRet
    /\ UNCHANGED <<backend, dialOK, ctxErr, status, pipeSet, exitCode, waitRet,
                   pipeLog, nops, wrote, buf, pipeClosed, copyDone>>

\* The running command writes its next chunk to stream s.  A write to
\* sprite's synchronous pipe returns when the chunk before it was read.
ProcWrite(s) ==
    /\ UNCHANGED nonCmdVars
    /\ proc = "running"
    /\ xpc = "wait"
    /\ Len(wrote[s]) < MaxOut
    /\ backend = "sprite" => buf[s] = wrote[s]
    /\ wrote' = [wrote EXCEPT ![s] = Append(@, Chunk(s, Len(@) + 1))]
    /\ UNCHANGED <<backend, dialOK, ctxErr, proc, status, pipeSet, begun,
                   session, exitCode, waitRet, pipeLog, nops, xpc, buf,
                   pipeClosed, copyDone, collectRet>>

\* The copy goroutine of stream s reads the next chunk from its pipe, which
\* it cannot do once os/exec has closed the pipe.
CopyRead(s) ==
    /\ UNCHANGED nonCmdVars
    /\ xpc \in { "wait", "waited" }
    /\ ~copyDone[s]
    /\ ~pipeClosed
    /\ Len(buf[s]) < Len(wrote[s])
    /\ buf' = [buf EXCEPT ![s] = Append(@, wrote[s][Len(@) + 1])]
    /\ UNCHANGED <<backend, dialOK, ctxErr, proc, status, pipeSet, begun,
                   session, exitCode, waitRet, pipeLog, nops, xpc, wrote,
                   pipeClosed, copyDone, collectRet>>

\* The copy goroutine of stream s returns: it has read all the command wrote
\* and the command is over (EOF), or its pipe was closed under it.
CopyEnd(s) ==
    /\ UNCHANGED nonCmdVars
    /\ xpc \in { "wait", "waited" }
    /\ ~copyDone[s]
    /\ \/ pipeClosed
       \/ proc \in { "exited", "killed" } /\ buf[s] = wrote[s]
    /\ copyDone' = [copyDone EXCEPT ![s] = TRUE]
    /\ UNCHANGED <<backend, dialOK, ctxErr, proc, status, pipeSet, begun,
                   session, exitCode, waitRet, pipeLog, nops, xpc, wrote, buf,
                   pipeClosed, collectRet>>

\* waitErr := command.Wait()
CollectWait ==
    /\ UNCHANGED nonCmdVars
    /\ xpc = "wait"
    /\ CmdWaitCall
    /\ xpc' = "waited"
    /\ UNCHANGED <<backend, dialOK, ctxErr, proc, status, pipeSet, begun,
                   pipeLog, nops, wrote, buf, copyDone, collectRet>>

\* copyWG.Wait() returns; the result is built and returned.
CollectReturn ==
    /\ UNCHANGED nonCmdVars
    /\ xpc = "waited"
    /\ \A s \in Streams : copyDone[s]
    /\ CollectReturns(CollectResult(waitRet[1].err).result,
                      CollectResult(waitRet[1].err).err)
    /\ UNCHANGED <<backend, dialOK, ctxErr, proc, status, pipeSet, begun,
                   session, exitCode, waitRet, pipeLog, nops, wrote, buf,
                   pipeClosed, copyDone>>

NextCollect ==
    \/ \E b \in Backends : \E d \in (IF b = "ssh" THEN BOOLEAN ELSE {TRUE}) :
          Execute(b, d)
    \/ \E p \in Streams : CollectPipe(p)
    \/ \E ok \in BOOLEAN : CollectStart(ok)
    \/ \E s \in Streams : ProcWrite(s)
    \/ \E s \in Streams : CopyRead(s)
    \/ \E s \in Streams : CopyEnd(s)
    \/ CollectWait
    \/ CollectReturn
    \/ \E n \in ExitStatuses : ProcExit(n)
    \/ \E e \in CtxErrs : Cancel(e)

\* ---- the local sandbox and its root

\* Path components, each a string of characters.
CompA == <<"a">>
CompB == <<"b">>
Dot == <<".">>
DotDot == <<".", ".">>
DotDotA == <<".", ".", "a">>
Components == { CompA, CompB, Dot, DotDot, DotDotA }

\* string(filepath.Separator)
Separator == <<"/">>

\* The working directories of a command: absolute or relative paths of up to
\* MaxDepth components ("" is the relative path without components).
Dirs ==
    [abs : BOOLEAN,
     comps : UNION { [1..n -> Components] : n \in 0..MaxDepth }]

\* The roots a local sandbox is made with.
Roots == { << >>, <<CompA>>, <<CompA, CompB>> }

\* strings.HasPrefix
HasPrefix(str, prefix) ==
    Len(prefix) <= Len(str) /\ SubSeq(str, 1, Len(prefix)) = prefix

\* filepath.Clean of an absolute path: "." is dropped, ".." drops the
\* component before it, and is dropped itself at the top.
RECURSIVE CleanInto(_, _)
CleanInto(done, comps) ==
    IF comps = << >> THEN done
    ELSE IF Head(comps) = Dot THEN CleanInto(done, Tail(comps))
    ELSE IF Head(comps) = DotDot
    THEN CleanInto(IF done = << >> THEN done ELSE SubSeq(done, 1, Len(done) - 1),
                   Tail(comps))
    ELSE CleanInto(Append(done, Head(comps)), Tail(comps))

Clean(comps) == CleanInto(<< >>, comps)

\* filepath.Abs of a root that is given from the top.
Abs(root) == Clean(root)

\* filepath.Join(absDir, dir)
Join(absDir, dir) == Clean(absDir \o dir)

\* resolve(rootDir, c.Dir): an absolute directory is taken as it is, a
\* relative one is joined to the root.
resolve(absDir, dir) ==
    IF dir.abs THEN dir.comps ELSE Join(absDir, dir.comps)

\* Components two paths have in common at their start.
RECURSIVE Common(_, _)
Common(p, q) ==
    IF p = << >> \/ q = << >> \/ Head(p) # Head(q) THEN 0
    ELSE 1 + Common(Tail(p), Tail(q))

\* filepath.Rel(base, targ) for absolute paths, as components: one ".." for
\* each component of the cleaned base below the common start, then the rest
\* of the cleaned target; "." when the two are the same.
Rel(base, targ) ==
    LET b == Clean(base)
        t == Clean(targ)
        k == Common(b, t)
    IN  IF b = t THEN <<Dot>>
        ELSE [i \in 1..(Len(b) - k) |-> DotDot] \o SubSeq(t, k + 1, Len(t))

\* A path of components as a string.
RECURSIVE PathString(_)
PathString(comps) ==
    IF comps = << >> THEN << >>
    ELSE IF Len(comps) = 1 THEN Head(comps)
    ELSE Head(comps) \o Separator \o PathString(Tail(comps))

\* An isOutsideRoot that takes every relative path starting with the two
\* characters ".." for one that leaves the root.
isOutsideRootByPrefix(rootDir, workDir) ==
    LET rel == PathString(Rel(rootDir, workDir))
    IN  HasPrefix(rel, DotDot)

\* isOutsideRoot(rootDir, workDir)
isOutsideRoot(rootDir, workDir) ==
    LET rel == PathString(Rel(rootDir, workDir))
    IN  rel = DotDot \/ HasPrefix(rel, DotDot \o Separator)

InitLocal ==
    /\ sroot = << >>
    /\ cdir = [abs |-> FALSE, comps |-> << >>]
    /\ lrun = << >>

\* Sandbox.Run, once, of a sandbox with the given root for a command with
\* working directory dir; ok says whether the command, once started, succeeds.
LocalRun(root, dir, ok) ==
    /\ UNCHANGED nonLocalVars
    /\ lrun = << >>
    /\ sroot' = root
    /\ cdir' = dir
    /\ LET rootDir == Abs(root)
           workDir == resolve(rootDir, dir)
       IN  lrun' =
             IF isOutsideRoot(rootDir, workDir)
             THEN << [err |-> <<"sandbox/local: working dir is outside of root">>,
                      started |-> FALSE, dir |-> << >>] >>
             ELSE << [err |-> IF ok THEN Nil
                              ELSE <<"sandbox/local: running command">>,
                      started |-> TRUE, dir |-> workDir] >>

NextLocal ==
    /\ lrun = << >>
    /\ \E root \in Roots : \E dir \in Dirs : \E ok \in BOOLEAN :
          LocalRun(root, dir, ok)

\* ---- shell quoting

\* The characters of arguments: a letter, the two quotes, the space, the
\* backslash and the dollar sign.
Chars == { "a", "'", "\"", " ", "\\", "$" }

\* The arguments: strings of up to MaxWord characters.
Arguments == UNION { [1..n -> Chars] : n \in 0..MaxWord }

\* strings.ReplaceAll(input, "'", `'"'"'`)
RECURSIVE ReplaceAll(_)
ReplaceAll(input) ==
    IF input = << >> THEN << >>
    ELSE (IF Head(input) = "'" THEN <<"'", "\"", "'", "\"", "'">>
          ELSE <<Head(input)>>) \o ReplaceAll(Tail(input))

\* A shellQuote that wraps its input in single quotes and escapes nothing.
shellQuoteBare(input) ==
    IF input = << >> THEN <<"'", "'">>
    ELSE <<"'">> \o input \o <<"'">>

\* shellQuote(input)
shellQuote(input) ==
    IF input = << >> THEN <<"'", "'">>
    ELSE <<"'">> \o ReplaceAll(input) \o <<"'">>

\* The words a POSIX shell makes of a command line.  Outside quotes a space
\* ends a word, a backslash takes the next character as it is, $a is
\* replaced by the value of a; between single quotes every character stands
\* for itself; between double quotes $a is replaced and a backslash takes a
\* following $, " or \ as it is.  A line that ends inside quotes is not a
\* command.  mode is "plain", "single" or "double", cur the word so far and
\* open whether there is one.
RECURSIVE ShellParse(_, _, _, _, _)
ShellParse(str, mode, cur, open, words) ==
    IF str = << >>
    THEN [ok |-> mode = "plain",
          words |-> IF open THEN Append(words, cur) ELSE words]
    ELSE LET c == Head(str)
             rest == Tail(str)
             expands == c = "$" /\ rest # << >> /\ Head(rest) = "a"
         IN  IF mode = "single"
             THEN IF c = "'" THEN ShellParse(rest, "plain", cur, TRUE, words)
                  ELSE ShellParse(rest, mode, Append(cur, c), TRUE, words)
             ELSE IF expands
             THEN ShellParse(Tail(rest), mode, Append(cur, "value of a"), TRUE, words)
             ELSE IF mode = "double"
             THEN IF c = "\"" THEN ShellParse(rest, "plain", cur, TRUE, words)
                  ELSE IF c = "\\" /\ rest # << >> /\ Head(rest) \in { "$", "\"", "\\" }
                  THEN ShellParse(Tail(rest), mode, Append(cur, Head(rest)), TRUE, words)
                  ELSE ShellParse(rest, mode, Append(cur, c), TRUE, words)
             ELSE IF c = " "
             THEN ShellParse(rest, mode, << >>, FALSE,
                             IF open THEN Append(words, cur) ELSE words)
             ELSE IF c = "'" THEN ShellParse(rest, "single", cur, TRUE, words)
             ELSE IF c = "\"" THEN ShellParse(rest, "double", cur, TRUE, words)
             ELSE IF c = "\\" /\ rest # << >>
             THEN ShellParse(Tail(rest), mode, Append(cur, Head(rest)), TRUE, words)
             ELSE ShellParse(rest, mode, Append(cur, c), TRUE, words)

ShellWords(str) == ShellParse(str, "plain", << >>, FALSE, << >>)

InitQuote == quoted = << >>

\* shellQuote is called, once, with an argument.
ShellQuoteCall(input) ==
    /\ UNCHANGED nonQuoteVars
    /\ quoted = << >>
    /\ quoted' = << [in |-> input, out |-> shellQuote(input)] >>

NextQuote == quoted = << >> /\ \E input \in Arguments : ShellQuoteCall(input)

\* ---- the shell tools

\* The tools that run shell commands: shell (package shell) over a sandbox
\* executor, tool_bash (package tools) over the DefaultExecutor.
ShellTools == { "shell", "tool_bash" }

\* cmd.Run of the local sandbox executor under the shell tool: the error of
\* a command that did not exit with status 0 is handed on, wrapped.
SandboxRunErr(p) ==
    IF p.state = "killed" THEN <<"sandbox/local: running command: ", "signal: killed">>
    ELSE IF p.status # 0
    THEN <<"sandbox/local: running command: ", "exit status", Itoa(p.status)>>
    ELSE Nil

\* The function of the shell tool: (*Out, error), a nil *Out being << >>.
shellFunc(p) ==
    IF SandboxRunErr(p) # Nil THEN [out |-> << >>, err |-> SandboxRunErr(p)]
    ELSE [out |-> << [Output |-> p.combined] >>, err |-> Nil]

\* DefaultExecutor.Execute: (stdout, stderr, exitCode, err).  The error of
\* cmd.Run for a command that exited with a status or was killed at the
\* deadline is an *exec.ExitError.
DefaultExecutorExecute(p) ==
    [stdout |-> p.stdout, stderr |-> p.stderr,
     exitCode |-> IF p.state = "killed" THEN -1 ELSE p.status,
     err |-> Nil]

\* The function of the tool_bash tool: (BashOutput, error).
BashFunc(p) ==
    LET e == DefaultExecutorExecute(p)
    IN  IF e.err # Nil
        THEN [out |-> << >>, err |-> <<"bash: execution failed: ">> \o e.err]
        ELSE [out |-> << [Stdout |-> e.stdout, Stderr |-> e.stderr,
                          ExitCode |-> e.exitCode] >>,
              err |-> Nil]

InitShell ==
    /\ shtool = "none"
    /\ shproc = [state |-> "none", status |-> 0, stdout |-> << >>,
                 stderr |-> << >>, combined |-> << >>]
    /\ shret = << >>

\* A shell tool is run and starts its command.
ShellToolCall(tool) ==
    /\ UNCHANGED nonShellVars
    /\ shtool = "none"
    /\ shtool' = tool
    /\ shproc' = [shproc EXCEPT !.state = "running"]
    /\ UNCHANGED shret

\* The command writes its next chunk to stream s; the buffers of the tool
\* receive it.
ShellToolWrite(s) ==
    /\ UNCHANGED nonShellVars
    /\ shproc.state = "running"
    /\ Len(shproc[s]) < MaxOut
    /\ shproc' = [shproc EXCEPT ![s] = Append(@, Chunk(s, Len(@) + 1)),
                                !.combined = Append(@, Chunk(s, Len(shproc[s]) + 1))]
    /\ UNCHANGED <<shtool, shret>>

\* The command exits with status n.
ShellToolExit(n) ==
    /\ UNCHANGED nonShellVars
    /\ shproc.state = "running"
    /\ shproc' = [shproc EXCEPT !.state = "exited", !.status = n]
    /\ UNCHANGED <<shtool, shret>>

\* The timeout of the tool passes and the command is killed.
ShellToolTimeout ==
    /\ UNCHANGED nonShellVars
    /\ shproc.state = "running"
    /\ shproc' = [shproc EXCEPT !.state = "killed"]
    /\ UNCHANGED <<shtool, shret>>

\* cmd.Run, or Execute, returns and the tool function returns its result.
ShellToolReturn ==
    /\ UNCHANGED nonShellVars
    /\ shproc.state \in { "exited", "killed" }
    /\ shret = << >>
    /\ shret' = << IF shtool = "shell" THEN shellFunc(shproc) ELSE BashFunc(shproc) >>
    /\ UNCHANGED <<shtool, shproc>>

NextShell ==
    \/ \E tool \in ShellTools : ShellToolCall(tool)
    \/ \E s \in Streams : ShellToolWrite(s)
    \/ \E n \in ExitStatuses : ShellToolExit(n)
    \/ ShellToolTimeout
    \/ ShellToolReturn

\* ---- thought signatures between Gemini and the agent

\* Thought signatures, as bytes; << >> is the signature that is not there.
Signatures == { << >>, <<0>>, <<255, 10>> }

\* A function call part of a request that leaves the signature out.
FunctionCallPartUnsigned(call) ==
    [FunctionCall |-> call.Name, ThoughtSignature |-> << >>]

\* The part of a request that repeats the tool call of an assistant message.
FunctionCallPart(call) ==
    [FunctionCall |-> call.Name,
     ThoughtSignature |-> IF Len(call.ThoughtSignature) > 0
                          THEN call.ThoughtSignature ELSE << >>]

\* The contents a message contributes to a request.  Every assistant
\* message of this exchange has no text.
GeminiContent(m) ==
    IF m.Role = "user" THEN << [Role |-> "user", Parts |-> << [Text |-> m.Content] >>] >>
    ELSE IF m.Role = "assistant"
    THEN IF m.ToolCall # << >>
         THEN << [Role |-> "model", Parts |-> << FunctionCallPart(m.ToolCall[1]) >>] >>
         ELSE << >>
    ELSE << [Role |-> "user", Parts |-> << [FunctionResponse |-> m.ToolCallID] >>] >>

\* The contents of a request, from the messages.
RECURSIVE GeminiContents(_)
GeminiContents(messages) ==
    IF messages = << >> THEN << >>
    ELSE GeminiContent(Head(messages)) \o GeminiContents(Tail(messages))

InitSig ==
    /\ sgpc = "request"
    /\ gmsgs = << [Role |-> "user", Content |-> "hi"] >>
    /\ grecv = << << >> >>
    /\ gsent = << >>
    /\ glast = << >>
    /\ gcall = << >>

\* Client.Chat of Gemini builds the contents and starts the stream.
SigRequest ==
    /\ UNCHANGED nonSigVars
    /\ sgpc = "request"
    /\ Len(gsent) < MaxRequests
    /\ gsent' = Append(gsent, [contents |-> GeminiContents(gmsgs), n |-> Len(gmsgs)])
    /\ sgpc' = "stream"
    /\ glast' = << >>
    /\ gcall' = << >>
    /\ UNCHANGED <<gmsgs, grecv>>

\* A thought part arrives, with or without signature.
SigThoughtPart(sig) ==
    /\ UNCHANGED nonSigVars
    /\ sgpc = "stream"
    /\ gcall = << >> /\ glast = << >>
    /\ glast' = IF Len(sig) > 0 THEN sig ELSE glast
    /\ UNCHANGED <<sgpc, gmsgs, grecv, gsent, gcall>>

\* A function call part arrives, with or without signature; the agent takes
\* the tool call of the response.
SigFunctionCallPart(sig) ==
    /\ UNCHANGED nonSigVars
    /\ sgpc = "stream"
    /\ gcall = << >>
    /\ gcall' = << [call |-> [ID |-> "add", Name |-> "add",
                              ThoughtSignature |-> IF Len(sig) = 0 THEN glast ELSE sig],
                    recv |-> sig] >>
    /\ UNCHANGED <<sgpc, gmsgs, grecv, gsent, glast>>

\* The stream ends: the agent adds the assistant message, and after a tool
\* call the tool message, and goes on to the next request.
SigStreamEnd ==
    /\ UNCHANGED nonSigVars
    /\ sgpc = "stream"
    /\ IF gcall # << >>
       THEN /\ gmsgs' = gmsgs \o << [Role |-> "assistant", ToolCall |-> <<gcall[1].call>>],
                                    [Role |-> "tool", ToolCallID |-> gcall[1].call.ID] >>
            /\ grecv' = grecv \o << gcall[1].recv, << >> >>
            /\ sgpc' = "request"
       ELSE /\ gmsgs' = Append(gmsgs, [Role |-> "assistant", ToolCall |-> << >>])
            /\ grecv' = Append(grecv, << >>)
            /\ sgpc' = "done"
    /\ UNCHANGED <<gsent, glast, gcall>>

\* The next Chat of the agent adds its user message.
SigChat ==
    /\ UNCHANGED nonSigVars
    /\ sgpc = "done"
    /\ Len(gsent) < MaxRequests
    /\ gmsgs' = Append(gmsgs, [Role |-> "user", Content |-> "hi"])
    /\ grecv' = Append(grecv, << >>)
    /\ sgpc' = "request"
    /\ UNCHANGED <<gsent, glast, gcall>>

NextSig ==
    \/ SigRequest
    \/ \E sig \in Signatures : SigThoughtPart(sig)
    \/ \E sig \in Signatures : SigFunctionCallPart(sig)
    \/ SigStreamEnd
    \/ SigChat

\* ---- tool schemas

\* The kinds of types that hold no other type of interest here.
IntegerKinds == { "int", "int64", "uint8" }
FloatKinds == { "float64" }
LeafKinds ==
    IntegerKinds \cup FloatKinds \cup { "bool", "string", "struct", "map", "interface" }

\* The kinds of types around an element type.
ElemKinds == { "ptr", "slice", "array" }

\* The types of struct fields: a leaf kind under up to MaxNest pointers,
\* slices and arrays, outermost first ([][]int is slice, slice, int).
FieldTypes ==
    { w \o <<k>> : w \in UNION { [1..n -> ElemKinds] : n \in 0..MaxNest },
                    k \in LeafKinds }

\* The json tags of struct fields, split at the commas; << >> is no tag.
JsonTags == { << >>, <<"x">>, <<"-">>, <<"", "omitempty">>, <<"x", "omitempty">> }

\* The struct fields: all are named Field.
StructFields ==
    [Name : { "Field" }, exported : BOOLEAN, json : JsonTags,
     required : BOOLEAN, type : FieldTypes]

\* for t.Kind() == reflect.Ptr { t = t.Elem() }
RECURSIVE Deref(_)
Deref(t) == IF Head(t) = "ptr" THEN Deref(Tail(t)) ELSE t

\* A schemaType that looks through one pointer only.
RECURSIVE schemaTypeOnePtr(_)
schemaTypeOnePtr(t) ==
    LET u == IF Head(t) = "ptr" THEN Tail(t) ELSE t
    IN  IF Head(u) \in IntegerKinds THEN <<"integer">>
        ELSE IF Head(u) \in FloatKinds THEN <<"number">>
        ELSE IF Head(u) = "bool" THEN <<"boolean">>
        ELSE IF Head(u) \in { "slice", "array" } THEN <<"array">> \o schemaTypeOnePtr(Tail(u))
        ELSE IF Head(u) \in { "struct", "map" } THEN <<"object">>
        ELSE <<"string">>

\* schemaType(t): the Type of the property, followed by that of its Items,
\* and so on.
RECURSIVE schemaType(_)
schemaType(t) ==
    LET u == Deref(t)
    IN  IF Head(u) \in IntegerKinds THEN <<"integer">>
        ELSE IF Head(u) \in FloatKinds THEN <<"number">>
        ELSE IF Head(u) = "bool" THEN <<"boolean">>
        ELSE IF Head(u) \in { "slice", "array" } THEN <<"array">> \o schemaType(Tail(u))
        ELSE IF Head(u) \in { "struct", "map" } THEN <<"object">>
        ELSE <<"string">>

\* The name generateSchema gives a field.
SchemaName(field) ==
    IF field.json # << >> /\ field.json[1] # "" /\ field.json[1] # "-"
    THEN field.json[1] ELSE field.Name

\* generateSchema for a struct with the one field.
generateSchema(field) ==
    IF ~field.exported THEN [Properties |-> << >>, Required |-> << >>]
    ELSE [Properties |-> [n \in { SchemaName(field) } |-> schemaType(field.type)],
          Required |-> IF field.required THEN << SchemaName(field) >> ELSE << >>]

InitSchema == generated = << >>

\* A tool is made, once, of a function whose input struct has the one field.
Func(field) ==
    /\ UNCHANGED nonSchemaVars
    /\ generated = << >>
    /\ generated' = << [field |-> field, params |-> generateSchema(field)] >>

NextSchema == generated = << >> /\ \E field \in StructFields : Func(field)

\* ---- thinking budgets

\* The values of req.Thinking: not set, the four levels, and another string.
ThinkingLevels == { "", "none", "low", "medium", "high", "extreme" }

\* The adapters that turn a level into a token budget.
BudgetProviders == { "anthropic", "gemini" }

\* thinkingBudget of the Anthropic adapter.
AnthropicThinkingBudget(level) ==
    IF level = "low" THEN 4000
    ELSE IF level = "medium" THEN 10000
    ELSE IF level = "high" THEN 32000
    ELSE 10000

\* thinkingBudget of the Gemini adapter.
GeminiThinkingBudget(level) ==
    IF level \in { "none", "" } THEN 0
    ELSE IF level = "low" THEN 4000
    ELSE IF level = "medium" THEN 10000
    ELSE IF level = "high" THEN 32000
    ELSE 0

\* The budget, and what the request says about thinking: Anthropic enables
\* thinking with the budget and raises max_tokens to hold it, Gemini sets
\* the budget and asks for the thoughts.
ThinkingParams(provider, level) ==
    LET budget == IF provider = "anthropic" THEN AnthropicThinkingBudget(level)
                  ELSE GeminiThinkingBudget(level)
    IN  [provider |-> provider, level |-> level, budget |-> budget,
         enabled |-> budget > 0,
         MaxTokens |-> IF provider = "anthropic"
                       THEN (IF budget > 0 /\ 4096 < budget + 1000
                             THEN budget + 1000 ELSE 4096)
                       ELSE 0]

InitBudget == budgets = << >>

\* Client.Chat of the provider is called with a request of the level.
ThinkingChat(provider, level) ==
    /\ UNCHANGED nonBudgetVars
    /\ Len(budgets) < MaxRequests
    /\ budgets' = Append(budgets, ThinkingParams(provider, level))

NextBudget ==
    \E provider \in BudgetProviders : \E level \in ThinkingLevels :
        ThinkingChat(provider, level)

\* ---- the mutexes of the batch and of the model cache

Goroutines == 1..MaxGoroutines

\* A miss that keeps the read lock.
ReadersHeld(readers, g) == readers

\* mu.RUnlock() after the cache was found empty.
ReadersAfterMiss(readers, g) == readers \ {g}

InitLock ==
    /\ bpc = [g \in Goroutines |-> "idle"]
    /\ bmu = 0
    /\ kpc = [g \in Goroutines |-> "idle"]
    /\ kmu = [readers |-> {}, writer |-> 0]
    /\ kfilled = FALSE

\* Batch.Go: b.mu.Lock()
BatchLock(g) ==
    /\ UNCHANGED nonLockVars
    /\ bpc[g] = "idle" /\ bmu = 0
    /\ bmu' = g
    /\ bpc' = [bpc EXCEPT ![g] = "reserve"]
    /\ UNCHANGED <<kpc, kmu, kfilled>>

\* Batch.Go: the slot is reserved, b.mu.Unlock(), and the function is handed
\* to the errgroup.
BatchReserve(g) ==
    /\ UNCHANGED nonLockVars
    /\ bpc[g] = "reserve"
    /\ bmu' = 0
    /\ bpc' = [bpc EXCEPT ![g] = "scheduled"]
    /\ UNCHANGED <<kpc, kmu, kfilled>>

\* The goroutine of the errgroup calls fn().
BatchFnStart(g) ==
    /\ UNCHANGED nonLockVars
    /\ bpc[g] = "scheduled"
    /\ bpc' = [bpc EXCEPT ![g] = "fn"]
    /\ UNCHANGED <<bmu, kpc, kmu, kfilled>>

\* fn() returns: with an error the goroutine ends, with a result it goes on
\* to store it.
BatchFnReturn(g, ok) ==
    /\ UNCHANGED nonLockVars
    /\ bpc[g] = "fn"
    /\ bpc' = [bpc EXCEPT ![g] = IF ok THEN "result" ELSE "done"]
    /\ UNCHANGED <<bmu, kpc, kmu, kfilled>>

\* b.mu.Lock() before the result is stored.
BatchStoreLock(g) ==
    /\ UNCHANGED nonLockVars
    /\ bpc[g] = "result" /\ bmu = 0
    /\ bmu' = g
    /\ bpc' = [bpc EXCEPT ![g] = "store"]
    /\ UNCHANGED <<kpc, kmu, kfilled>>

\* b.out[idx] = result; b.mu.Unlock()
BatchStoreUnlock(g) ==
    /\ UNCHANGED nonLockVars
    /\ bpc[g] = "store"
    /\ bmu' = 0
    /\ bpc' = [bpc EXCEPT ![g] = "done"]
    /\ UNCHANGED <<kpc, kmu, kfilled>>

\* The memoized Models: mu.RLock()
CacheRLock(g) ==
    /\ UNCHANGED nonLockVars
    /\ kpc[g] = "idle" /\ kmu.writer = 0
    /\ kmu' = [kmu EXCEPT !.readers = @ \cup {g}]
    /\ kpc' = [kpc EXCEPT ![g] = "rlocked"]
    /\ UNCHANGED <<bpc, bmu, kfilled>>

\* The cache is filled: it is copied, mu.RUnlock(), and the copy returned.
CacheHit(g) ==
    /\ UNCHANGED nonLockVars
    /\ kpc[g] = "rlocked" /\ kfilled
    /\ kmu' = [kmu EXCEPT !.readers = @ \ {g}]
    /\ kpc' = [kpc EXCEPT ![g] = "done"]
    /\ UNCHANGED <<bpc, bmu, kfilled>>

\* The cache is empty: mu.RUnlock()
CacheMiss(g) ==
    /\ UNCHANGED nonLockVars
    /\ kpc[g] = "rlocked" /\ ~kfilled
    /\ kmu' = [kmu EXCEPT !.readers = ReadersAfterMiss(@, g)]
    /\ kpc' = [kpc EXCEPT ![g] = "miss"]
    /\ UNCHANGED <<bpc, bmu, kfilled>>

\* The call goes on to fn(ctx).
CacheFnStart(g) ==
    /\ UNCHANGED nonLockVars
    /\ kpc[g] = "miss"
    /\ kpc' = [kpc EXCEPT ![g] = "fn"]
    /\ UNCHANGED <<bpc, bmu, kmu, kfilled>>

\* fn(ctx) returns: an error is returned as it is, a list is to be stored.
CacheFnReturn(g, ok) ==
    /\ UNCHANGED nonLockVars
    /\ kpc[g] = "fn"
    /\ kpc' = [kpc EXCEPT ![g] = IF ok THEN "got" ELSE "done"]
    /\ UNCHANGED <<bpc, bmu, kmu, kfilled>>

\* mu.Lock() before the cache is filled.
CacheWLock(g) ==
    /\ UNCHANGED nonLockVars
    /\ kpc[g] = "got" /\ kmu.writer = 0 /\ kmu.readers = {}
    /\ kmu' = [kmu EXCEPT !.writer = g]
    /\ kpc' = [kpc EXCEPT ![g] = "wlocked"]
    /\ UNCHANGED <<bpc, bmu, kfilled>>

\* cached = the copy; mu.Unlock(); return.
CacheWUnlock(g) ==
    /\ UNCHANGED nonLockVars
    /\ kpc[g] = "wlocked"
    /\ kfilled' = TRUE
    /\ kmu' = [kmu EXCEPT !.writer = 0]
    /\ kpc' = [kpc EXCEPT ![g] = "done"]
    /\ UNCHANGED <<bpc, bmu>>

NextLock ==
    \E g \in Goroutines :
        \/ BatchLock(g)
        \/ BatchReserve(g)
        \/ BatchFnStart(g)
        \/ \E ok \in BOOLEAN : BatchFnReturn(g, ok)
        \/ BatchStoreLock(g)
        \/ BatchStoreUnlock(g)
        \/ CacheRLock(g)
        \/ CacheHit(g)
        \/ CacheMiss(g)
        \/ CacheFnStart(g)
        \/ \E ok \in BOOLEAN : CacheFnReturn(g, ok)
        \/ CacheWLock(g)
        \/ CacheWUnlock(g)

\* ---- Client.Chat

\* The names a request can ask for: those the providers list, and one that
\* no provider lists.
RequestedNames == { 1, 2, 3 }

\* findModel(models, name): the first model of the name, else the first
\* model, in a sequence; << >> when there is no model.
RECURSIVE findNamed(_, _)
findNamed(list, name) ==
    IF list = << >> THEN << >>
    ELSE IF Head(list).Name = name THEN << Head(list) >>
    ELSE findNamed(Tail(list), name)

findModel(list, name) ==
    IF findNamed(list, name) # << >> THEN findNamed(list, name)
    ELSE IF Len(list) > 0 THEN << list[1] >>
    ELSE << >>

\* findProvider(c.providers, name): the position of the provider, 0 when
\* there is none of the name.
findProvider(name) == IF name \in Providers THEN name ELSE 0

\* What Client.Chat does after c.Models returned listing.
ClientChatRoute(listing, name) ==
    IF listing.err # Nil
    THEN [model |-> name, provider |-> 0,
          err |-> <<"llm: unable to list models: ">> \o listing.err]
    ELSE IF findModel(listing.models, name) = << >>
    THEN [model |-> name, provider |-> 0, err |-> <<"llm: model not found">>]
    ELSE IF findProvider(findModel(listing.models, name)[1].Provider) = 0
    THEN [model |-> name, provider |-> 0, err |-> <<"llm: provider not found">>]
    ELSE [model |-> name,
          provider |-> findProvider(findModel(listing.models, name)[1].Provider),
          err |-> Nil]

InitRoute == routed = << >>

\* Client.Chat, once c.Models has returned: the model is looked up and the
\* request handed to its provider, or an error is yielded.
ClientChat(name) ==
    /\ UNCHANGED nonRouteVars
    /\ listRet # Nil
    /\ routed = << >>
    /\ routed' = << ClientChatRoute(listRet[1], name) >>

NextRoute ==
    \/ NextList
    \/ \E name \in RequestedNames : ClientChat(name)

\* --------------------------------------------------------- specifications

Init ==
    /\ InitAgent /\ InitBatch /\ InitProvider /\ InitCache /\ InitList
    /\ InitTool /\ InitCmd /\ InitLocal
    /\ InitQuote
    /\ InitShell
    /\ InitSig
    /\ InitSchema
    /\ InitBudget
    /\ InitLock
    /\ InitRoute

\* The agent loop.
Spec == Init /\ [][NextAgent]_vars

\* The batch primitive.
SpecBatch == Init /\ [][NextBatch]_vars

\* The provider adapters.
SpecProvider == Init /\ [][NextProvider]_vars

\* The memoized Models of a provider.
SpecCache == Init /\ [][NextCache]_vars

\* Client.Models over the registered providers.
SpecList == Init /\ [][NextList]_vars

\* The typed tool the agent loop runs.
SpecTool == Init /\ [][NextTool]_vars

\* One sandbox command, driven by its caller.
SpecCmd == Init /\ [][NextCmd]_vars

\* One sandbox command, driven by Execute.
SpecCollect == Init /\ [][NextCollect]_vars

\* Runs of local sandboxes.
SpecLocal == Init /\ [][NextLocal]_vars

\* Calls of shellQuote.
SpecQuote == Init /\ [][NextQuote]_vars

\* One run of a shell tool.
SpecShell == Init /\ [][NextShell]_vars

\* Thought signatures between Gemini and the agent.
SpecSig == Init /\ [][NextSig]_vars

\* Schemas generated for tools.
SpecSchema == Init /\ [][NextSchema]_vars

\* Requests with a thinking level.
SpecBudget == Init /\ [][NextBudget]_vars

\* The mutexes of the batch and of the model cache.
SpecLock == Init /\ [][NextLock]_vars

\* Client.Chat, from the listing of the models to the provider.
SpecRoute == Init /\ [][NextRoute]_vars


\* ------------------------------------------------------ claims: helpers

\* The indexes of the tool-role messages of the history that carry id.
ToolMessagesWith(id) ==
    { i \in DOMAIN msgs : msgs[i].Role = "tool" /\ msgs[i].ToolCallID = id }

\* The concatenation of the Content of the pairs evs[1..n].
RECURSIVE ConcatContent(_, _)
ConcatContent(evs, n) ==
    IF n = 0 THEN << >> ELSE ConcatContent(evs, n - 1) \o evs[n].Content

\* The number of messages of m with the given role.
CountRole(m, role) == Cardinality({ i \in DOMAIN m : m[i].Role = role })

\* A run has come to its end, other than by the caller stopping it, and the
\* history has not been cleared since.
RunOver ==
    pc = "idle" /\ outcome \in {"done", "failed", "unknown"} /\ msgs # << >>

\* ------------------------------------------------------------------ C1

\* C1: for every tool call with id X that the loop has surfaced (yielded as
\* a tool event) in a run, the history holds exactly one tool-role message
\* with toolCallId = X, after the assistant message recording the call, by
\* the time the next provider request is in flight or the run is over.
C1_ToolIdEcho ==
    (pc = "stream" \/ RunOver) =>
        \A k \in DOMAIN events :
            events[k].Tool # Nil =>
                LET X == events[k].Tool[1].ID
                IN  /\ Cardinality(ToolMessagesWith(X)) = 1
                    /\ \E i \in DOMAIN msgs, j \in ToolMessagesWith(X) :
                          /\ i < j
                          /\ msgs[i].Role = "assistant"
                          /\ msgs[i].ToolCall = events[k].Tool

\* ------------------------------------------------------------------ C2

\* C2: when a run has ended without an error, its last event has Done=true
\* and its Content is the concatenation, in order, of all content deltas
\* yielded earlier in the run, over all turns.
C2_FinalCarriesAllDeltas ==
    outcome = "done" =>
        /\ Last(events).Done
        /\ Last(events).Content = ConcatContent(events, Len(events) - 1)

\* ------------------------------------------------------------------ C3

\* C3: the request in flight holds the complete history so far, in order:
\* every message appended since the Agent was made (or cleared), those of
\* earlier Chat calls included.
C3_RequestHoldsHistory ==
    pc = "stream" => req = hist

\* A second Chat run's request that holds the seeded message, both user
\* messages, and the assistant and tool messages of the first run.
C3_Witness ==
    /\ pc = "stream"
    /\ chats = 2
    /\ req[1].Role = "system"
    /\ CountRole(req, "user") = 2
    /\ CountRole(req, "assistant") >= 2
    /\ CountRole(req, "tool") >= 1


\* ------------------------------------------------------------------ C4

\* C4: when the loop is about to send the next request after a tool turn,
\* every tool call the provider streamed in that turn has been yielded as a
\* tool event, has been executed, and has its tool-result message in the
\* history, in order.
C4_AllToolCallsHandled ==
    (pc = "request" /\ steps > 0) =>
        LET n == Len(received)
        IN  /\ Len(ran) >= n
            /\ Len(events) >= n
            /\ Len(msgs) >= n
            /\ \A k \in 1..n :
                  /\ ran[Len(ran) - n + k].call = received[k]
                  /\ events[Len(events) - n + k] = ToolEvent(<<received[k]>>)
                  /\ msgs[Len(msgs) - n + k].Role = "tool"
                  /\ msgs[Len(msgs) - n + k].ToolCallID = received[k].ID

\* ------------------------------------------------------------------ C5

\* The loop stands right after a tool.Run that returned an error.
AfterToolError == pc = "request" /\ ran # << >> /\ Last(ran).ret.err # Nil

\* C5: when a tool function has returned an error, no error has been yielded
\* to the caller, the history ends with the assistant message of the call
\* followed by one tool-role message "Error: " + the error text carrying the
\* call's id, and the loop goes on to the next provider request.
C5_ToolErrorFedBack ==
    AfterToolError =>
        /\ \A e \in DOMAIN events : events[e].Err = Nil
        /\ outcome = "none"
        /\ Len(msgs) >= 2
        /\ Last(msgs) = Message("tool", <<"Error: ">> \o Last(ran).ret.err,
                                Nil, Nil, Last(ran).call.ID)
        /\ msgs[Len(msgs) - 1].Role = "assistant"
        /\ msgs[Len(msgs) - 1].ToolCall = <<Last(ran).call>>
        /\ ENABLED BuildRequest

\* The request after a failed tool is in flight and ends with the error message.
C5_Witness ==
    /\ pc = "stream"
    /\ ran # << >>
    /\ Last(ran).ret.err = <<"boom">>
    /\ Last(req).Role = "tool"
    /\ Last(req).Content = <<"Error: ", "boom">>
    /\ Last(req).ToolCallID = Last(ran).call.ID

\* ------------------------------------------------------------------ C6

\* C6: when the error for a tool name outside the catalog has been yielded,
\* the chat is not over: the loop is still running.
C6_UnknownToolNotFatal ==
    \A e \in DOMAIN events :
        (events[e].Err # Nil /\ events[e].Err[1] = "llm: unknown tool")
            => pc # "idle"

\* ------------------------------------------------------------------ C7

\* C7: when the provider stream has yielded an error, that error is the last
\* pair the loop yielded, no Done event was yielded, and until the next Chat
\* invocation nothing more is yielded, no tool runs and no request is sent.
C7_ProviderErrorTerminal ==
    /\ [](outcome = "failed" =>
            /\ events # << >>
            /\ Last(events) = ErrorPair(ProviderErr)
            /\ \A e \in DOMAIN events : ~events[e].Done)
    /\ [][(outcome = "failed" /\ chats' = chats) =>
            /\ events' = events
            /\ ran' = ran
            /\ nreq' = nreq
            /\ ndelta' = ndelta]_vars

\* A provider error in the second turn of a run, after a tool has run.
C7_Witness ==
    /\ outcome = "failed"
    /\ pc = "idle"
    /\ steps = 2
    /\ Len(ran) = 1
    /\ Len(events) >= 2

\* ------------------------------------------------------------------ C8

\* A step in which the provider stream completes: the assistant message is
\* appended.
StreamCompletes == pc = "stream" /\ Len(hist') = Len(hist) + 1

\* C8: a run ends normally exactly when a provider stream completes without
\* a tool call; after that no request is sent in the run; and once a tool
\* result is recorded the loop stands at the next provider request, which
\* is the only thing it can do and which it can do.
C8_EndsIffNoToolCall ==
    /\ [](pc = "request" => ENABLED BuildRequest)
    /\ [][/\ (StreamCompletes /\ received = Nil) =>
                (pc' = "idle" /\ outcome' = "done" /\ Last(events').Done)
          /\ (outcome' = "done" /\ outcome # "done") =>
                (StreamCompletes /\ received = Nil)
          /\ (outcome = "done" /\ chats' = chats) => nreq' = nreq
          /\ (pc = "tool" /\ pc' # "tool") =>
                (pc' = "request" /\ Last(hist').Role = "tool")
          /\ (pc = "request" /\ pc' # "request") =>
                (pc' = "stream" /\ nreq' = nreq + 1)]_vars

\* A run of two requests that ended normally: a tool turn, then a plain one.
C8_Witness ==
    /\ outcome = "done"
    /\ steps = 2
    /\ Len(ran) = 1
    /\ Last(events).Done

\* ------------------------------------------------------------------ C9

\* C9: with a max-steps bound of StepBound, one Chat run sends at most
\* StepBound provider requests.
C9_StepBound == steps <= StepBound

\* ----------------------------------------------------------------- C10

\* Wait has returned without an error.
WaitSucceeded == waited # Nil /\ waited[1].err = Nil

\* C10: the slice a successful Wait returns has one entry per Go call, and
\* entry i is the value the function of the i-th Go call returned.
C10_BatchOrder ==
    WaitSucceeded =>
        /\ Len(waited[1].out) = Len(ret)
        /\ \A i \in 1..Len(ret) : waited[1].out[i] = ret[i].val

\* A successful Wait over three functions of which a later one finished
\* first, with different values.
C10_Witness ==
    /\ WaitSucceeded
    /\ Len(ret) = 3
    /\ stored[1] > stored[2]
    /\ waited[1].out[1] # waited[1].out[2]

\* ----------------------------------------------------------------- C11

\* Wait has returned.
WaitReturned == waited # Nil

\* A step in which the function of some Go call returns the error e.
ErrorReturnedNow(e) ==
    \E i \in DOMAIN ret : ret[i] = NoReturn /\ ret'[i].err = e /\ e # Nil

\* C11 (amended): Wait returns only after every function scheduled with Go
\* has returned and its goroutine has ended; when no function returned an
\* error it returns the results in registration order and no error; when
\* some function did, it returns no results (nil) and the error of the
\* function that returned an error first.
C11_WaitAfterAllFirstError ==
    /\ [](WaitReturned =>
            /\ Len(task) = next
            /\ \A i \in 1..next : task[i] = "done" /\ ret[i] # NoReturn
            /\ waited[1].err = egErr
            /\ (egErr = Nil) = (\A i \in 1..next : ret[i].err = Nil)
            /\ egErr = Nil =>
                  /\ Len(waited[1].out) = next
                  /\ \A i \in 1..next : waited[1].out[i] = ret[i].val
            /\ egErr # Nil => waited[1].out = Nil)
    /\ [][/\ (egErr = Nil /\ egErr' # Nil) => ErrorReturnedNow(egErr')
          /\ egErr # Nil => egErr' = egErr]_vars

\* Wait has returned the first of two different errors, after a third
\* function had succeeded.
C11_Witness ==
    /\ WaitReturned
    /\ next = 3
    /\ waited[1].err = <<"e2">>
    /\ \E i \in 1..next : ret[i].err = <<"e1">>
    /\ \E i \in 1..next : ret[i].err = Nil /\ ret[i].val # Zero

\* C11 as stated: whatever the functions returned, Wait returns the results
\* in registration order (the slot of each function that succeeded holds
\* its value), together with the first error if there is one.
C11_ResultsTogetherWithError ==
    WaitReturned =>
        /\ waited[1].err = egErr
        /\ Len(waited[1].out) = next
        /\ \A i \in 1..next :
              ret[i].err = Nil => waited[1].out[i] = ret[i].val

\* ------------------------------------------- claims: provider sequences

\* The iterator body of the adapter's Chat has returned.
ChatReturned == apc = "returned"

\* The consumer has stopped iterating: yield has returned false.
ConsumerStopped == stoppedAt # 0

\* The last pair yielded is an error pair.
EndsWithError == yielded # << >> /\ Last(yielded).Err # Nil

\* The positions of the done events yielded.
DoneEvents == { i \in DOMAIN yielded : yielded[i].Done }

\* ----------------------------------------------------------------- C12

\* C12: when an adapter's Chat sequence has ended, not cut short by its
\* consumer, and its last pair is not an error pair, then it has a last
\* event and that event has Done = true.
C12_EndsWithDoneOrError ==
    (ChatReturned /\ ~ConsumerStopped /\ ~EndsWithError) =>
        (yielded # << >> /\ Last(yielded).Done)

\* ----------------------------------------------------------------- C13

\* C13: in the sequence an adapter has yielded so far, an event with
\* Done = true is the last pair: there is at most one such event and no
\* event and no error follows it.
C13_DoneIsLast ==
    \A i \in DoneEvents : i = Len(yielded)

\* ----------------------------------------------------------------- C14

\* C14: once yield has returned false, the pair it was called with is the
\* last one the adapter has passed to yield.
C14_NoYieldAfterStop ==
    ConsumerStopped => Len(yielded) = stoppedAt

\* ----------------------------------------------------------------- C15

\* The tool-call events yielded, in order.
ToolEventSeq == SelectSeq(yielded, LAMBDA p : p.Tool # Nil)

\* C15: the tool-call events an adapter has yielded are, in order, the tool
\* calls the provider has streamed: event k is call k, that call's block
\* has finished, and the event's arguments are the concatenation of the
\* call's fragments (none early, none twice); and while the consumer goes
\* on iterating, every call whose block has finished has its event (none
\* dropped).
C15_OneEventPerToolCall ==
    /\ Len(ToolEventSeq) <= Len(streamed)
    /\ \A k \in DOMAIN ToolEventSeq :
          k <= Len(streamed) =>
              /\ streamed[k].Closed
              /\ ToolEventSeq[k].Tool[1] =
                    ToolCall(streamed[k].ID, streamed[k].Name, streamed[k].Frags)
    /\ ~ConsumerStopped =>
          \A k \in DOMAIN streamed : streamed[k].Closed => k <= Len(ToolEventSeq)

\* ----------------------------------------------------------------- C16

\* s without its leading and trailing blanks.
RECURSIVE Trim(_)
Trim(s) ==
    IF s = << >> THEN s
    ELSE IF <<Head(s)>> = Blank THEN Trim(Tail(s))
    ELSE IF <<Last(s)>> = Blank THEN Trim(SubSeq(s, 1, Len(s) - 1))
    ELSE s

\* The argument texts over the fragments that parse as JSON.
ValidJSON(s) == Trim(s) \in { <<"{}">>, <<"null">>, Frag1 \o Frag2 }

\* The arguments the claim expects for the assembled fragments s.
ExpectedArguments(s) == IF ValidJSON(s) THEN Trim(s) ELSE <<"{}">>

\* C16: the arguments of every tool-call event an adapter has yielded parse
\* as JSON, and for a call whose block has finished they are {} when the
\* assembled fragments are empty or do not parse, and the assembled
\* fragments without surrounding blanks otherwise.
C16_ArgumentsValidJSON ==
    \A k \in DOMAIN ToolEventSeq :
        LET args == ToolEventSeq[k].Tool[1].Arguments
        IN  /\ ValidJSON(args)
            /\ (k <= Len(streamed) /\ streamed[k].Closed) =>
                  args = ExpectedArguments(streamed[k].Frags)

\* ----------------------------------------------------------------- C17

\* C17: when an adapter's Chat has been iterated with an empty model, it has
\* returned, the one pair it has yielded is an error pair, and no request
\* has been sent to the provider.
C17_EmptyModelIsError ==
    (adapter # "none" /\ model = Nil) =>
        /\ ChatReturned
        /\ Len(yielded) = 1
        /\ yielded[1].Err # Nil
        /\ sent = << >>

\* ----------------------------------------------------------------- C18

\* Call c has invoked the listing function.
FnInvoked(c) == local[c] # NotReturned

\* Call c has come back from the listing function with a list.
FnSucceeded(c) == FnInvoked(c) /\ local[c].err = Nil

\* C18: a call that started after some call had returned successfully
\* returns, without an error and without invoking the listing function, a
\* list that a successful listing produced; a call whose listing fails
\* leaves the cache as it is, the cache is empty as long as no listing has
\* succeeded, and a call that starts on an empty cache goes to the listing
\* function.
C18_FirstSuccess ==
    /\ [](\A c \in Callers :
            (cpc[c] = "done" /\ afterOK[c]) =>
                /\ ~FnInvoked(c)
                /\ cret[c].err = Nil
                /\ \E d \in Callers \ {c} :
                      FnSucceeded(d) /\ cret[c].models = local[d].models)
    /\ []((\A d \in Callers : ~FnSucceeded(d)) => cached = Nil)
    /\ [][\A c \in Callers :
            /\ (cpc[c] = "fn" /\ cpc'[c] = "done") =>
                  (cret'[c].err # Nil /\ cached' = cached)
            /\ (cpc[c] = "idle" /\ cpc'[c] # "idle" /\ cached = Nil) =>
                  cpc'[c] = "fn"]_vars

\* After a failed call and a successful one, a third call has returned the
\* two-model list from the cache without invoking the listing function.
C18_Witness ==
    \E c, d \in Callers :
        /\ cpc[d] = "done" /\ cret[d].err # Nil
        /\ cpc[c] = "done" /\ afterOK[c] /\ ~FnInvoked(c)
        /\ cret[c].models = <<"m1", "m2">>

\* ----------------------------------------------------------------- C19

\* Client.Models has returned and every provider's listing had succeeded.
AllListed ==
    listRet # Nil /\ \A p \in Providers : listed[p].err = Nil

\* C19: when every provider's listing has succeeded, Client.Models returns
\* no error and a list that holds every model of every provider's listing
\* and holds no model twice.
C19_UnionOfProviders ==
    AllListed =>
        /\ listRet[1].err = Nil
        /\ \A p \in Providers : \A i \in DOMAIN listed[p].m :
              \E k \in DOMAIN listRet[1].models : listRet[1].models[k] = listed[p].m[i]
        /\ \A j, k \in DOMAIN listRet[1].models :
              listRet[1].models[j] = listRet[1].models[k] => j = k

\* ----------------------------------------------------------------- C20

\* The caller has stopped iterating the current run.
CallerStopped == outcome = "stopped"

\* C20: the step in which the caller stops runs no tool and sends no
\* request, and from then on, until Chat is iterated again, no pair is
\* yielded, no tool is run, no request is sent and no provider response is
\* taken.
C20_StopIsFinal ==
    [][/\ (CallerStopped' /\ ~CallerStopped) => (ran' = ran /\ nreq' = nreq)
       /\ (CallerStopped /\ chats' = chats) =>
             /\ events' = events
             /\ ran' = ran
             /\ nreq' = nreq
             /\ ndelta' = ndelta
             /\ CallerStopped']_vars

\* The caller has stopped at the tool event of the second turn of a run,
\* after a tool had run in the first.
C20_Witness ==
    /\ CallerStopped
    /\ steps = 2
    /\ Len(ran) = 1
    /\ Last(events).Tool # Nil

\* ----------------------------------------------------------------- C21

\* The index in events of the last tool event: the events after it are those
\* of the turn whose stream is being read (a tool event ends its turn).
TurnStart ==
    LET tools == { i \in DOMAIN events : events[i].Tool # Nil }
    IN  IF tools = {} THEN 0 ELSE CHOOSE i \in tools : \A j \in tools : j <= i

\* The events yielded since the current turn's request was sent.
TurnEvents == SubSeq(events, TurnStart + 1, Len(events))

\* The step yields a thinking or a content event to the caller.
YieldsDelta ==
    /\ Len(events') > Len(events)
    /\ events'[Len(events) + 1].Tool = Nil
    /\ events'[Len(events) + 1].Err = Nil
    /\ ~events'[Len(events) + 1].Done

\* C21: the events of a turn are in the order of the provider deltas they
\* stem from: when a thinking or content event is yielded for a delta that
\* came after the deltas of some tool calls, the tool events of those calls
\* have been yielded before it in the turn.
C21_ProviderDeltaOrder ==
    [][(pc = "stream" /\ received # Nil /\ YieldsDelta) =>
          \A k \in DOMAIN received :
              \E i \in DOMAIN TurnEvents :
                  TurnEvents[i] = ToolEvent(<<received[k]>>)]_vars

\* ----------------------------------------------------------------- C22

\* s is a prefix of t.
IsPrefix(s, t) == Len(s) <= Len(t) /\ SubSeq(t, 1, Len(s)) = s

\* The step belongs to a Chat invocation: it starts one or happens in one.
ChatStep == pc # "idle" \/ chats' = chats + 1

\* C22: every step of a Chat invocation leaves the log as it was or longer
\* by messages appended at its end: the log before the step is a prefix of
\* the log after it.
C22_AppendOnly ==
    [][ChatStep => IsPrefix(msgs, msgs')]_vars

\* The log of a run in its second turn: the seeded message, the user
\* message, the first turn's assistant message and its tool result.
C22_Witness ==
    /\ pc = "stream"
    /\ steps = 2
    /\ Len(msgs) = 4
    /\ msgs[1].Role = "system"
    /\ msgs[2].Role = "user"
    /\ msgs[3].Role = "assistant"
    /\ msgs[4].Role = "tool"

\* ----------------------------------------------------------------- C23

\* The argument text can be decoded into the tool's input type: there is
\* none, or it is JSON that fits the struct.
Decodable(args) == args = << >> \/ ValidJSON(args)

\* C23: for every tool call whose arguments cannot be decoded, the tool
\* function was not invoked, Run returned an error, the loop appended for it
\* a tool-role message "Error: " + that error carrying the call's id, just as
\* for a tool function that failed, and the loop went on: once Run has
\* returned it stands at the next request and can take the next tool call.
C23_DecodeFailureFedBack ==
    /\ Len(fed) = Len(truns)
    /\ \A k \in DOMAIN truns :
          ~Decodable(truns[k].args) =>
              /\ ~truns[k].invoked
              /\ truns[k].err # Nil
              /\ fed[k] = Message("tool", <<"Error: ">> \o truns[k].err,
                                  Nil, Nil, RunCall.ID)
              /\ (k = Len(truns) /\ tpc = "request" /\ Len(truns) < MaxRuns) =>
                    ENABLED ToolCallArrives(<<"{}">>)
    /\ \A k \in DOMAIN truns :
          (truns[k].invoked /\ truns[k].err # Nil) =>
              fed[k] = Message("tool", <<"Error: ">> \o truns[k].err,
                               Nil, Nil, RunCall.ID)

\* A call with a truncated object was fed back as an error, and the loop
\* went on to a call that ran the tool function.
C23_Witness ==
    /\ Len(truns) = 2
    /\ truns[1].args = Frag1
    /\ ~truns[1].invoked
    /\ fed[1].Content[1] = "Error: "
    /\ truns[2].invoked

\* ----------------------------------------------------------------- C24

WaitedCancelled == waitRet # << >> /\ waitRet[1].at = "killed"

\* C25: on every back-end, when the context of a started command is
\* cancelled or times out before the command finishes, Wait returns the
\* context's error and ExitCode() is -1.
C25_CancelledWait ==
    WaitedCancelled => (waitRet[1].err = ctxErr /\ exitCode = -1)

\* ----------------------------------------------------------------- C26

\* The exit errors of the back-ends for status n: *exec.ExitError,
\* *ssh.ExitError, *sandbox.ExitError.
IsExitError(e, n) ==
    /\ Len(e) = 2
    /\ e[1] \in { "exit status", "Process exited with status", "sandbox: exit code" }
    /\ e[2] = Itoa(n)

\* Wait has returned for a command that ran to completion.
WaitedCompleted == waitRet # << >> /\ waitRet[1].at = "exited"

ExecutedNonZero ==
    collectRet # << >> /\ waitRet # << >> /\ proc = "exited" /\ status # 0

\* C27: Execute of a command that exits with a non-zero status n returns a
\* nil error and a Result with ExitCode n whose Stdout and Stderr are what
\* the command wrote.
C27_NonZeroExitResult ==
    ExecutedNonZero =>
        /\ collectRet[1].err = Nil
        /\ collectRet[1].result.ExitCode = status
        /\ collectRet[1].result.Stdout = wrote["stdout"]
        /\ collectRet[1].result.Stderr = wrote["stderr"]

\* ----------------------------------------------------------------- C28

\* Execute has returned for a command that its context, cancelled or timed
\* out, has ended.
ExecutedCancelled == collectRet # << >> /\ ctxErr # Nil /\ proc = "killed"

\* C28: when the context is cancelled or times out while Execute runs,
\* Execute returns an empty Result and the context's error.
C28_CancelledExecute ==
    ExecutedCancelled =>
        /\ collectRet[1].result = EmptyResult
        /\ IsCtxErr(collectRet[1].err)
        /\ <<Last(collectRet[1].err)>> = ctxErr

\* ----------------------------------------------------------------- C30

\* The path of the resolved working directory of the last Run relative to
\* its root, as a string.
RelOfRun == PathString(Rel(Abs(sroot), resolve(Abs(sroot), cdir)))

\* The last Run failed without starting its command.
RefusedRun == lrun # << >> /\ lrun[1].err # Nil /\ ~lrun[1].started

\* The resolved working directory of the last Run is the root or lies below
\* it.
WithinRoot ==
    IsPrefix(Clean(Abs(sroot)), Clean(resolve(Abs(sroot), cdir)))

\* The last Run started its command in the resolved working directory.
RanInResolved ==
    lrun[1].started /\ lrun[1].dir = resolve(Abs(sroot), cdir)

\* C30 as stated: local execution fails without starting the command if and
\* only if the path of the resolved directory relative to the root starts
\* with "..", and runs in the resolved directory otherwise.
C30_AsStated ==
    lrun # << >> =>
        /\ RefusedRun <=> HasPrefix(RelOfRun, DotDot)
        /\ ~RefusedRun => RanInResolved

\* C30, amended: local execution fails without starting the command if and
\* only if the path of the resolved directory relative to the root is ".."
\* or starts with "../", which is when the resolved directory lies outside
\* the root; otherwise the command runs in the resolved directory.
C30_RootContainment ==
    lrun # << >> =>
        /\ RefusedRun <=> (RelOfRun = DotDot \/ HasPrefix(RelOfRun, DotDot \o Separator))
        /\ RefusedRun <=> ~WithinRoot
        /\ ~RefusedRun => RanInResolved

\* A working directory above the root has been refused.
C30_Witness ==
    /\ sroot = <<CompA>>
    /\ cdir = [abs |-> FALSE, comps |-> <<DotDot, CompB>>]
    /\ RefusedRun

\* ----------------------------------------------------------------- C31

\* The single quotes in a string.
RECURSIVE CountQuotes(_)
CountQuotes(str) ==
    IF str = << >> THEN 0
    ELSE (IF Head(str) = "'" THEN 1 ELSE 0) + CountQuotes(Tail(str))

\* C31: a POSIX shell reads the quoted form of an argument back as the one
\* word that the argument is; the quoted form is the argument between single
\* quotes with '"'"' in the place of each of its single quotes, and '' for
\* the empty argument.
C31_QuoteRoundTrip ==
    quoted # << >> =>
        LET x == quoted[1].in
            q == quoted[1].out
        IN  /\ ShellWords(q) = [ok |-> TRUE, words |-> <<x>>]
            /\ Head(q) = "'" /\ Last(q) = "'"
            /\ Len(q) = Len(x) + 2 + 4 * CountQuotes(x)
            /\ CountQuotes(q) = 2 + 3 * CountQuotes(x)
            /\ x = << >> => q = <<"'", "'">>

\* An argument with a single quote, a dollar sign and a letter was quoted.
C31_Witness ==
    quoted # << >> /\ quoted[1].in = <<"'", "$", "a">>

\* ----------------------------------------------------------------- C32

\* A shell tool has returned for a command that exited with a status other
\* than 0.
ShellToolFailedCommand ==
    shret # << >> /\ shproc.state = "exited" /\ shproc.status # 0

\* C32: when the command a shell tool runs exits with a non-zero status, the
\* result of the tool presents what the command wrote to stdout and to
\* stderr.
C32_OutputOnNonZeroExit ==
    ShellToolFailedCommand =>
        /\ shret[1].out # << >>
        /\ IF shtool = "shell"
           THEN shret[1].out[1].Output = shproc.combined
           ELSE /\ shret[1].out[1].Stdout = shproc.stdout
                /\ shret[1].out[1].Stderr = shproc.stderr

\* ----------------------------------------------------------------- C33

\* The signatures on the function call parts of the contents of a request,
\* in order, << >> where a part has none.
RECURSIVE SentSignatures(_)
SentSignatures(contents) ==
    IF contents = << >> THEN << >>
    ELSE (IF "FunctionCall" \in DOMAIN Head(contents).Parts[1]
          THEN << Head(contents).Parts[1].ThoughtSignature >> ELSE << >>)
         \o SentSignatures(Tail(contents))

\* The signatures that came with the tool calls of the first n messages, in
\* order, << >> where a tool call came without one.
RECURSIVE ReceivedSignatures(_)
ReceivedSignatures(n) ==
    IF n = 0 THEN << >>
    ELSE ReceivedSignatures(n - 1) \o
         (IF gmsgs[n].Role = "assistant" /\ gmsgs[n].ToolCall # << >>
          THEN << grecv[n] >> ELSE << >>)

\* The tool call of message k came with a signature.
SignedCall(k) ==
    gmsgs[k].Role = "assistant" /\ gmsgs[k].ToolCall # << >> /\ grecv[k] # << >>

RequiredNames(params) == { params.Required[i] : i \in 1..Len(params.Required) }

\* C34: the property of an exported field is named by its json tag when the
\* tag gives a name and by the struct field otherwise, and a field tagged
\* json:"-" is in neither the properties nor the required list.
C34_PropertyNames ==
    (generated # << >> /\ generated[1].field.exported) =>
        LET f == generated[1].field
            params == generated[1].params
        IN  IF f.json # << >> /\ f.json[1] = "-"
            THEN DOMAIN params.Properties = {} /\ params.Required = << >>
            ELSE /\ DOMAIN params.Properties =
                      { IF f.json # << >> /\ f.json[1] # "" THEN f.json[1] ELSE f.Name }
                 /\ RequiredNames(params) \subseteq DOMAIN params.Properties

\* ----------------------------------------------------------------- C35

\* The type names the claim gives a field type: the pointers are left out,
\* and each level that remains is mapped by its kind.
RECURSIVE KindNames(_)
KindNames(t) ==
    IF t = << >> THEN << >>
    ELSE (IF Head(t) = "ptr" THEN << >>
          ELSE IF Head(t) \in { "int", "int64", "uint8" } THEN <<"integer">>
          ELSE IF Head(t) = "float64" THEN <<"number">>
          ELSE IF Head(t) = "bool" THEN <<"boolean">>
          ELSE IF Head(t) \in { "slice", "array" } THEN <<"array">>
          ELSE IF Head(t) \in { "struct", "map" } THEN <<"object">>
          ELSE <<"string">>)
         \o KindNames(Tail(t))

\* C35: the property of a field has the type of the field's kind, whatever
\* pointers are around it: integer, number, boolean, object, string, or
\* array with the items of the element type, mapped the same way.
C35_SchemaTypes ==
    (generated # << >> /\ generated[1].field.exported) =>
        \A n \in DOMAIN generated[1].params.Properties :
            generated[1].params.Properties[n] = KindNames(generated[1].field.type)

\* The schema of a field of type *[]string was generated: an array of
\* strings.
C35_Witness ==
    /\ generated # << >> /\ generated[1].field.exported
    /\ generated[1].field.type = <<"ptr", "slice", "string">>
    /\ generated[1].field.json = <<"x">>
    /\ generated[1].params.Properties["x"] = <<"array", "string">>

\* ----------------------------------------------------------------- C36

\* The budget the claim gives a level.
LevelBudget(level) ==
    IF level = "none" THEN 0
    ELSE IF level = "low" THEN 4000
    ELSE IF level = "medium" THEN 10000
    ELSE 32000

\* C36: the Anthropic and the Gemini adapter give the thinking levels none,
\* low, medium and high the token budgets 0, 4000, 10000 and 32000.
C36_ThinkingBudgets ==
    \A i \in 1..Len(budgets) :
        budgets[i].level \in { "none", "low", "medium", "high" } =>
            budgets[i].budget = LevelBudget(budgets[i].level)

\* ----------------------------------------------------------------- C38

\* Call c of the memoized Models has returned a list with elements.
ReturnedList(c) == cpc[c] = "done" /\ cret[c].err = Nil /\ cret[c].models # << >>

\* C38: the list a call of the memoized Models returns is never the slice
\* the cache holds, so that nothing done to its elements shows in what
\* another call returns.
C38_NoSharedStorage ==
    \A c \in Callers : ReturnedList(c) => ~cret[c].shared

\* ----------------------------------------------------------------- C37

\* C37: a goroutine that runs a function scheduled with Batch.Go does not
\* hold the mutex of the batch, and a goroutine that runs the listing
\* function under the memoized Models holds the mutex of the cache neither
\* for reading nor for writing.
C37_NoLockAroundFn ==
    \A g \in Goroutines :
        /\ bpc[g] = "fn" => bmu # g
        /\ kpc[g] = "fn" => (g \notin kmu.readers /\ kmu.writer # g)

\* One goroutine runs a scheduled function while another holds the mutex of
\* the batch, and runs the listing function while another holds the mutex of
\* the cache for reading.
C37_Witness ==
    \E g, h \in Goroutines :
        /\ g # h
        /\ bpc[g] = "fn" /\ bmu = h
        /\ kpc[g] = "fn" /\ h \in kmu.readers

\* ----------------------------------------------------------------- C39

\* Execute has returned a Result for a command that was waited for after it
\* had exited by itself.
ExecutedToExit ==
    /\ collectRet # << >> /\ collectRet[1].err = Nil
    /\ waitRet # << >> /\ waitRet[1].at = "exited"

\* C39: the Result of Execute holds all that the command wrote to stdout and
\* to stderr before it exited, whatever the order of the two copying
\* goroutines and the call of Wait.
C39_ResultHoldsAllOutput ==
    ExecutedToExit =>
        \A s \in Streams :
            (IF s = "stdout" THEN collectRet[1].result.Stdout
             ELSE collectRet[1].result.Stderr) = wrote[s]

\* ----------------------------------------------------------------- C40

\* The models c.Models returned to Client.Chat that have the name asked for.
ListedAs(name) ==
    { i \in 1..Len(listRet[1].models) : listRet[1].models[i].Name = name }

\* C40: Client.Chat calls the Chat of a provider that lists the model asked
\* for; when no listed model has the name, it yields the one error "model
\* not found" and calls no provider's Chat.
C40_RoutedToListingProvider ==
    (routed # << >> /\ listRet[1].err = Nil) =>
        IF ListedAs(routed[1].model) # {}
        THEN /\ routed[1].err = Nil
             /\ \E i \in ListedAs(routed[1].model) :
                   routed[1].provider = listRet[1].models[i].Provider
        ELSE /\ routed[1].err = <<"llm: model not found">>
             /\ routed[1].provider = 0

====
